---------------------------- MODULE Spec2Model ----------------------------
(***************************************************************************)
(* Language detection of the Translator front-end.                         *)
(*                                                                         *)
(* A text is a JavaScript string: a sequence of UTF-16 code units, here a  *)
(* sequence of integers.  The matchers of TranslationService are operators *)
(* over such sequences, written as the code evaluates them: substring      *)
(* tests with String.includes, regular expressions with the ASCII \b, \w   *)
(* and the JavaScript \s of a pattern without the u flag.                  *)
(*                                                                         *)
(* TranslationService.detectLanguage is the state machine: one call on a   *)
(* text, the heuristic, and the remote request with each of its outcomes.  *)
(***************************************************************************)
EXTENDS Integers, Sequences, FiniteSets, TLC

\* Longest text, counted in fragments of Fragments.
MaxParts == 2

----------------------------------------------------------------------------
(* Characters and strings *)

\* String.prototype.toLowerCase on one code unit, for the blocks the texts
\* are drawn from: ASCII, Latin-1 and basic Cyrillic have case, the other
\* blocks (Devanagari, Arabic, kana, CJK, Hangul, surrogates) have none.
toLowerCaseChar(c) ==
  IF c >= 65 /\ c <= 90 THEN c + 32
  ELSE IF c >= 192 /\ c <= 222 /\ c # 215 THEN c + 32
  ELSE IF c >= 1040 /\ c <= 1071 THEN c + 32
  ELSE IF c >= 1024 /\ c <= 1039 THEN c + 80
  ELSE c

toLowerCase(t) == [i \in 1..Len(t) |-> toLowerCaseChar(t[i])]

\* Canonicalize of a pattern with the i flag and without the u flag: only
\* the ASCII letters of the text fold onto the ASCII letters of the pattern.
canonicalize(c) == IF c >= 65 /\ c <= 90 THEN c + 32 ELSE c

ignoreCase(t) == [i \in 1..Len(t) |-> canonicalize(t[i])]

\* \w of a pattern without the u flag: [A-Za-z0-9_].
isWordChar(c) ==
  \/ c >= 48 /\ c <= 57
  \/ c >= 65 /\ c <= 90
  \/ c = 95
  \/ c >= 97 /\ c <= 122

\* \s: WhiteSpace and LineTerminator of ECMAScript.
isSpace(c) ==
  \/ c \in {9, 10, 11, 12, 13, 32, 160, 5760, 8232, 8233, 8239, 8287, 12288, 65279}
  \/ c >= 8192 /\ c <= 8202

\* \b before position i of t (i in 1..Len(t)+1).
wordBoundary(t, i) ==
  (i > 1 /\ isWordChar(t[i - 1])) # (i <= Len(t) /\ isWordChar(t[i]))

\* The literal w occurs in t at position i.
startsAt(t, i, w) ==
  /\ i >= 1
  /\ i + Len(w) - 1 <= Len(t)
  /\ SubSeq(t, i, i + Len(w) - 1) = w

\* String.prototype.includes.
includes(t, w) == \E i \in 1..(Len(t) - Len(w) + 1) : startsAt(t, i, w)

\* /[...]/.test(t) for a character class given as the set of its code units.
testClass(t, class) == \E i \in 1..Len(t) : t[i] \in class

\* /\b(w1|w2|...)\b/.test(t) for the alternatives W.
testWords(t, W) ==
  \E w \in W : \E i \in 1..(Len(t) - Len(w) + 1) :
    /\ wordBoundary(t, i)
    /\ startsAt(t, i, w)
    /\ wordBoundary(t, i + Len(w))

\* /\b\w+suffix\b/.test(t)
testSuffix(t, suffix) ==
  \E i \in 1..Len(t) :
    /\ wordBoundary(t, i)
    /\ \E j \in (i + 1)..(Len(t) - Len(suffix) + 1) :
         /\ \A k \in i..(j - 1) : isWordChar(t[k])
         /\ startsAt(t, j, suffix)
         /\ wordBoundary(t, j + Len(suffix))

\* /\bparticle\s+\w+\b/.test(t)
testParticle(t, particle) ==
  \E i \in 1..Len(t) :
    /\ wordBoundary(t, i)
    /\ startsAt(t, i, particle)
    /\ \E j \in (i + Len(particle) + 1)..Len(t) :
         /\ \A k \in (i + Len(particle))..(j - 1) : isSpace(t[k])
         /\ \E e \in (j + 1)..(Len(t) + 1) :
              /\ \A k \in j..(e - 1) : isWordChar(t[k])
              /\ wordBoundary(t, e)

\* /\bfirst\s+second\b/.test(t)
testCollocation(t, first, second) ==
  \E i \in 1..Len(t) :
    /\ wordBoundary(t, i)
    /\ startsAt(t, i, first)
    /\ \E j \in (i + Len(first) + 1)..Len(t) :
         /\ \A k \in (i + Len(first))..(j - 1) : isSpace(t[k])
         /\ startsAt(t, j, second)
         /\ wordBoundary(t, j + Len(second))

\* String.prototype.trim: the text without the white space at its ends.
trim(t) ==
  LET kept == {i \in 1..Len(t) : ~isSpace(t[i])}
  IN IF kept = {} THEN << >>
     ELSE SubSeq(t, CHOOSE i \in kept : \A j \in kept : i <= j,
                    CHOOSE i \in kept : \A j \in kept : i >= j)

\* encodeURIComponent throws URIError on a lone surrogate.
isHighSurrogate(c) == c >= 55296 /\ c <= 56319
isLowSurrogate(c) == c >= 56320 /\ c <= 57343

encodeURIComponentThrows(t) ==
  \E i \in 1..Len(t) :
    \/ isHighSurrogate(t[i]) /\ ~(i < Len(t) /\ isLowSurrogate(t[i + 1]))
    \/ isLowSurrogate(t[i]) /\ ~(i > 1 /\ isHighSurrogate(t[i - 1]))

----------------------------------------------------------------------------
(* The language catalog of data/languages, by code *)

languages ==
  <<"auto", "en", "hi", "es", "fr", "de", "it", "pt", "ru", "ar", "ja", "ko", "zh">>

\* languages.find(l => l.code === code)
find(code) ==
  IF \E i \in 1..Len(languages) : languages[i] = code THEN code ELSE "undefined"

----------------------------------------------------------------------------
(* isLikelyEnglish *)

englishWords ==
  {
    <<116,104,101>>,  \* the
    <<97,110,100>>,  \* and
    <<111,114>>,  \* or
    <<98,117,116>>,  \* but
    <<105,110>>,  \* in
    <<111,110>>,  \* on
    <<97,116>>,  \* at
    <<116,111>>,  \* to
    <<102,111,114>>,  \* for
    <<111,102>>,  \* of
    <<119,105,116,104>>,  \* with
    <<98,121>>,  \* by
    <<102,114,111,109>>,  \* from
    <<117,112>>,  \* up
    <<97,98,111,117,116>>,  \* about
    <<105,110,116,111>>,  \* into
    <<111,118,101,114>>,  \* over
    <<97,102,116,101,114>>,  \* after
    <<105,115>>,  \* is
    <<97,114,101>>,  \* are
    <<119,97,115>>,  \* was
    <<119,101,114,101>>,  \* were
    <<98,101>>,  \* be
    <<98,101,101,110>>,  \* been
    <<98,101,105,110,103>>,  \* being
    <<104,97,118,101>>,  \* have
    <<104,97,115>>,  \* has
    <<104,97,100>>,  \* had
    <<100,111>>,  \* do
    <<100,111,101,115>>,  \* does
    <<100,105,100>>,  \* did
    <<119,105,108,108>>,  \* will
    <<119,111,117,108,100>>,  \* would
    <<99,111,117,108,100>>,  \* could
    <<115,104,111,117,108,100>>,  \* should
    <<109,97,121>>,  \* may
    <<109,105,103,104,116>>,  \* might
    <<99,97,110>>,  \* can
    <<109,117,115,116>>,  \* must
    <<115,104,97,108,108>>,  \* shall
    <<116,104,105,115>>,  \* this
    <<116,104,97,116>>,  \* that
    <<116,104,101,115,101>>,  \* these
    <<116,104,111,115,101>>,  \* those
    <<105>>,  \* i
    <<121,111,117>>,  \* you
    <<104,101>>,  \* he
    <<115,104,101>>,  \* she
    <<105,116>>,  \* it
    <<119,101>>,  \* we
    <<116,104,101,121>>,  \* they
    <<109,101>>,  \* me
    <<104,105,109>>,  \* him
    <<104,101,114>>,  \* her
    <<117,115>>,  \* us
    <<116,104,101,109>>,  \* them
    <<109,121>>,  \* my
    <<121,111,117,114>>,  \* your
    <<104,105,115>>,  \* his
    <<105,116,115>>,  \* its
    <<111,117,114>>,  \* our
    <<116,104,101,105,114>>,  \* their
    <<97>>,  \* a
    <<97,110>>,  \* an
    <<110,111,116>>,  \* not
    <<110,111>>,  \* no
    <<121,101,115>>,  \* yes
    <<104,101,108,108,111>>,  \* hello
    <<104,105>>,  \* hi
    <<116,104,97,110,107>>,  \* thank
    <<116,104,97,110,107,115>>,  \* thanks
    <<112,108,101,97,115,101>>,  \* please
    <<115,111,114,114,121>>,  \* sorry
    <<101,120,99,117,115,101>>,  \* excuse
    <<119,101,108,99,111,109,101>>  \* welcome
  }

isLikelyEnglish(text) == testWords(ignoreCase(text), englishWords)

----------------------------------------------------------------------------
(* isTransliteratedHindi *)

hindiWords ==
  {
    <<110,97,109,97,115,116,101>>,  \* namaste
    <<110,97,109,97,115,107,97,114>>,  \* namaskar
    <<97,100,97,97,98>>,  \* adaab
    <<115,97,116,32,115,114,105,32,97,107,97,108>>,  \* sat sri akal
    <<97,97,112>>,  \* aap
    <<116,117,109>>,  \* tum
    <<109,97,105,110>>,  \* main
    <<104,117,109>>,  \* hum
    <<107,121,97>>,  \* kya
    <<107,97,105,115,101>>,  \* kaise
    <<107,97,117,110>>,  \* kaun
    <<107,97,104,97,110>>,  \* kahan
    <<107,97,98>>,  \* kab
    <<107,121,117,110>>,  \* kyun
    <<104,97,105>>,  \* hai
    <<104,97,105,110>>,  \* hain
    <<116,104,97>>,  \* tha
    <<116,104,105>>,  \* thi
    <<116,104,101>>,  \* the
    <<104,111,103,97>>,  \* hoga
    <<104,111,103,105>>,  \* hogi
    <<104,111,110,103,101>>,  \* honge
    <<97,99,99,104,97>>,  \* accha
    <<116,104,101,101,107>>,  \* theek
    <<115,97,104,105>>,  \* sahi
    <<103,97,108,97,116>>,  \* galat
    <<98,117,114,97>>,  \* bura
    <<115,117,110,100,97,114>>,  \* sundar
    <<107,104,117,115,104,105>>,  \* khushi
    <<100,117,107,104>>,  \* dukh
    <<112,97,97,110,105>>,  \* paani
    <<107,104,97,110,97>>,  \* khana
    <<103,104,97,114>>,  \* ghar
    <<115,99,104,111,111,108>>,  \* school
    <<107,97,97,109>>,  \* kaam
    <<112,97,105,115,101>>,  \* paise
    <<114,117,112,97,121,101>>,  \* rupaye
    <<109,97,116,97>>,  \* mata
    <<112,105,116,97>>,  \* pita
    <<98,104,97,105>>,  \* bhai
    <<98,101,104,101,110>>,  \* behen
    <<98,101,116,97>>,  \* beta
    <<98,101,116,105>>,  \* beti
    <<100,111,115,116>>,  \* dost
    <<115,97,104,97,98>>,  \* sahab
    <<100,104,97,110,121,97,119,97,100>>,  \* dhanyawad
    <<115,104,117,107,114,105,121,97>>,  \* shukriya
    <<109,97,97,102>>,  \* maaf
    <<115,111,114,114,121>>,  \* sorry
    <<112,108,101,97,115,101>>,  \* please
    <<107,114,105,112,97,121,97>>,  \* kripaya
    <<104,97,97,110>>,  \* haan
    <<110,97,104,105>>,  \* nahi
    <<98,105,108,107,117,108>>,  \* bilkul
    <<115,104,97,121,97,100>>,  \* shayad
    <<122,97,114,111,111,114>>,  \* zaroor
    <<107,97,98,104,105>>,  \* kabhi
    <<104,97,109,101,115,104,97>>,  \* hamesha
    <<101,107>>,  \* ek
    <<100,111>>,  \* do
    <<116,101,101,110>>,  \* teen
    <<99,104,97,114>>,  \* char
    <<112,97,97,110,99,104>>,  \* paanch
    <<99,104,104,101>>,  \* chhe
    <<115,97,97,116>>,  \* saat
    <<97,97,116,104>>,  \* aath
    <<110,97,117>>,  \* nau
    <<100,97,115>>,  \* das
    <<115,117,98,97,104>>,  \* subah
    <<100,111,112,97,104,97,114>>,  \* dopahar
    <<115,104,97,97,109>>,  \* shaam
    <<114,97,97,116>>,  \* raat
    <<107,97,108>>,  \* kal
    <<97,97,106>>,  \* aaj
    <<112,97,114,115,111>>,  \* parso
    <<107,121,97,32,104,97,97,108>>,  \* kya haal
    <<107,97,105,115,101,32,104,111>>,  \* kaise ho
    <<107,121,97,32,107,97,114,32,114,97,104,101>>,  \* kya kar rahe
    <<107,97,104,97,110,32,106,97,32,114,97,104,101>>,  \* kahan ja rahe
    <<107,105,116,110,97,32,112,97,105,115,97>>,  \* kitna paisa
    <<98,97,104,117,116,32,97,99,99,104,97>>,  \* bahut accha
    <<98,97,104,117,116,32,98,117,114,97>>,  \* bahut bura
    <<116,104,111,100,97,32,115,97>>,  \* thoda sa
    <<122,121,97,100,97>>,  \* zyada
    <<107,97,109>>,  \* kam
    <<112,111,111,114,97>>,  \* poora
    <<106,97,110,97>>,  \* jana
    <<97,97,110,97>>,  \* aana
    <<112,101,101,110,97>>,  \* peena
    <<115,111,110,97>>,  \* sona
    <<117,116,104,110,97>>,  \* uthna
    <<98,97,105,116,104,110,97>>,  \* baithna
    <<107,104,97,100,97>>,  \* khada
    <<100,101,107,104,110,97>>,  \* dekhna
    <<115,117,110,110,97>>,  \* sunna
    <<98,111,108,110,97>>,  \* bolna
    <<107,101,104,110,97>>,  \* kehna
    <<115,97,109,106,104,110,97>>,  \* samjhna
    <<112,97,100,104,110,97>>,  \* padhna
    <<108,105,107,104,110,97>>,  \* likhna
    <<107,104,101,108,110,97>>,  \* khelna
    <<104,97,115,110,97>>,  \* hasna
    <<114,111,110,97>>,  \* rona
    <<103,97,97,110,97>>,  \* gaana
    <<110,97,97,99,104,110,97>>,  \* naachna
    <<100,97,117,100,110,97>>,  \* daudna
    <<99,104,97,108,110,97>>  \* chalna
  }

\* The stem of each pattern of hindiPatterns.
suffixPatterns == { <<106,105>>, <<119,97,108,97>>, <<107,97,114>> }  \* ji wala kar

particlePatterns ==
  { <<107,101>>, <<107,105>>, <<107,97>>, <<109,101,105,110>>, <<115,101>>, <<107,111>> }
  \* ke ki ka mein se ko

collocationPatterns ==
  { << <<114,97,104,101>>, <<104,97,105,110>> >>,   \* rahe hain
    << <<114,97,104,97>>, <<104,97,105>> >>,        \* raha hai
    << <<104,111>>, <<103,97,121,97>> >>,           \* ho gaya
    << <<107,97,114>>, <<100,105,121,97>> >> }      \* kar diya

devanagariSounds ==
  {
    <<98,104>>,  \* bh
    <<99,104>>,  \* ch
    <<100,104>>,  \* dh
    <<103,104>>,  \* gh
    <<106,104>>,  \* jh
    <<107,104>>,  \* kh
    <<112,104>>,  \* ph
    <<114,104>>,  \* rh
    <<115,104>>,  \* sh
    <<116,104>>,  \* th
    <<122,104>>,  \* zh
    <<97,97>>,  \* aa
    <<101,101>>,  \* ee
    <<111,111>>,  \* oo
    <<97,105>>,  \* ai
    <<97,117>>,  \* au
    <<114,105>>,  \* ri
    <<114,117>>  \* ru
  }

\* The vocabulary check with each word between word boundaries.
vocabularyHitWholeWords(lowerText) == testWords(lowerText, hindiWords)

\* Lines 150-154: the first word of hindiWords that lowerText includes.
vocabularyHit(lowerText) == \E word \in hindiWords : includes(lowerText, word)

patternHit(lowerText) ==
  \/ \E s \in suffixPatterns : testSuffix(lowerText, s)
  \/ \E p \in particlePatterns : testParticle(lowerText, p)
  \/ \E c \in collocationPatterns : testCollocation(lowerText, c[1], c[2])

\* The count with every occurrence of a sound counted.
soundCountOccurrences(lowerText) ==
  Cardinality({ <<sound, i>> \in devanagariSounds \X (1..Len(lowerText)) :
                  startsAt(lowerText, i, sound) })

\* Lines 185-190: one increment for each sound lowerText includes.
soundCount(lowerText) ==
  Cardinality({sound \in devanagariSounds : includes(lowerText, sound)})

\* The matcher with a threshold no text misses.
isTransliteratedHindiNoThreshold(text) ==
  LET lowerText == toLowerCase(text) IN
    IF vocabularyHit(lowerText) THEN TRUE
    ELSE IF patternHit(lowerText) THEN TRUE
    ELSE soundCount(lowerText) >= 0

isTransliteratedHindi(text) ==
  LET lowerText == toLowerCase(text) IN
    IF vocabularyHit(lowerText) THEN TRUE
    ELSE IF patternHit(lowerText) THEN TRUE
    ELSE soundCount(lowerText) >= 2

----------------------------------------------------------------------------
(* heuristicLanguageDetection *)

\* The character classes of the script tests, as sets of code units.
devanagariLetter == 2309..2361      \* U+0905 - U+0939
devanagariDigit == 2406..2415       \* U+0966 - U+096F
arabicLetter == 1575..1610          \* U+0627 - U+064A
arabicDigit == 1632..1641           \* U+0660 - U+0669
cyrillicLower == 1072..1103         \* U+0430 - U+044F
cyrillicUpper == 1040..1071         \* U+0410 - U+042F
cjkIdeograph == 19968..40879        \* U+4E00 - U+9FAF
hangulSyllable == 44032..55203      \* U+AC00 - U+D7A3
\* The class of line 220: the seven distinct kana it spells out (U+3072 U+3089
\* U+304C U+306A U+30AB U+30BF U+30CA) and the range U+4E00 - U+9FAF.
japaneseClass == {12402, 12425, 12364, 12394, 12459, 12479, 12490} \cup cjkIdeograph

spanishChars == {161, 191, 241, 225, 233, 237, 243, 250, 252}  \* U+00A1 U+00BF U+00F1 U+00E1 U+00E9 U+00ED U+00F3 U+00FA U+00FC
frenchChars == {224, 226, 228, 233, 232, 234, 235, 238, 239, 244, 246, 249, 251, 252, 255, 231}  \* U+00E0 U+00E2 U+00E4 U+00E9 U+00E8 U+00EA U+00EB U+00EE U+00EF U+00F4 U+00F6 U+00F9 U+00FB U+00FC U+00FF U+00E7
germanChars == {228, 246, 252, 223}  \* U+00E4 U+00F6 U+00FC U+00DF
italianChars == {224, 232, 233, 236, 237, 238, 242, 243, 249}  \* U+00E0 U+00E8 U+00E9 U+00EC U+00ED U+00EE U+00F2 U+00F3 U+00F9
portugueseChars == {227, 245, 225, 233, 237, 243, 250, 226, 234, 238, 244, 251, 224, 231}  \* U+00E3 U+00F5 U+00E1 U+00E9 U+00ED U+00F3 U+00FA U+00E2 U+00EA U+00EE U+00F4 U+00FB U+00E0 U+00E7

spanishWords ==
  {
    <<101,108>>,  \* el
    <<108,97>>,  \* la
    <<108,111,115>>,  \* los
    <<108,97,115>>,  \* las
    <<117,110>>,  \* un
    <<117,110,97>>,  \* una
    <<100,101>>,  \* de
    <<100,101,108>>,  \* del
    <<101,110>>,  \* en
    <<99,111,110>>,  \* con
    <<112,111,114>>,  \* por
    <<112,97,114,97>>,  \* para
    <<113,117,101>>,  \* que
    <<101,115>>,  \* es
    <<115,111,110>>,  \* son
    <<101,115,116,225>>,  \* est\xe1
    <<101,115,116,225,110>>,  \* est\xe1n
    <<104,111,108,97>>,  \* hola
    <<103,114,97,99,105,97,115>>,  \* gracias
    <<112,111,114,32,102,97,118,111,114>>  \* por favor
  }

frenchWords ==
  {
    <<108,101>>,  \* le
    <<108,97>>,  \* la
    <<108,101,115>>,  \* les
    <<117,110>>,  \* un
    <<117,110,101>>,  \* une
    <<100,101>>,  \* de
    <<100,117>>,  \* du
    <<100,101,115>>,  \* des
    <<101,116>>,  \* et
    <<111,117>>,  \* ou
    <<97,118,101,99>>,  \* avec
    <<112,111,117,114>>,  \* pour
    <<113,117,101>>,  \* que
    <<101,115,116>>,  \* est
    <<115,111,110,116>>,  \* sont
    <<98,111,110,106,111,117,114>>,  \* bonjour
    <<109,101,114,99,105>>,  \* merci
    <<115,39,105,108,32,118,111,117,115,32,112,108,97,238,116>>  \* s'il vous pla\xeet
  }

germanWords ==
  {
    <<100,101,114>>,  \* der
    <<100,105,101>>,  \* die
    <<100,97,115>>,  \* das
    <<101,105,110>>,  \* ein
    <<101,105,110,101>>,  \* eine
    <<117,110,100>>,  \* und
    <<111,100,101,114>>,  \* oder
    <<109,105,116>>,  \* mit
    <<102,252,114>>,  \* f\xfcr
    <<100,97,115,115>>,  \* dass
    <<105,115,116>>,  \* ist
    <<115,105,110,100>>,  \* sind
    <<104,97,108,108,111>>,  \* hallo
    <<100,97,110,107,101>>,  \* danke
    <<98,105,116,116,101>>  \* bitte
  }

italianWords ==
  {
    <<105,108>>,  \* il
    <<108,97>>,  \* la
    <<108,111>>,  \* lo
    <<103,108,105>>,  \* gli
    <<108,101>>,  \* le
    <<117,110>>,  \* un
    <<117,110,97>>,  \* una
    <<100,105>>,  \* di
    <<100,101,108>>,  \* del
    <<100,101,108,108,97>>,  \* della
    <<101>>,  \* e
    <<111>>,  \* o
    <<99,111,110>>,  \* con
    <<112,101,114>>,  \* per
    <<99,104,101>>,  \* che
    <<232>>,  \* \xe8
    <<115,111,110,111>>,  \* sono
    <<99,105,97,111>>,  \* ciao
    <<103,114,97,122,105,101>>,  \* grazie
    <<112,114,101,103,111>>  \* prego
  }

portugueseWords ==
  {
    <<111>>,  \* o
    <<97>>,  \* a
    <<111,115>>,  \* os
    <<97,115>>,  \* as
    <<117,109>>,  \* um
    <<117,109,97>>,  \* uma
    <<100,101>>,  \* de
    <<100,111>>,  \* do
    <<100,97>>,  \* da
    <<100,111,115>>,  \* dos
    <<100,97,115>>,  \* das
    <<101>>,  \* e
    <<111,117>>,  \* ou
    <<99,111,109>>,  \* com
    <<112,97,114,97>>,  \* para
    <<113,117,101>>,  \* que
    <<233>>,  \* \xe9
    <<115,227,111>>,  \* s\xe3o
    <<111,108,225>>,  \* ol\xe1
    <<111,98,114,105,103,97,100,111>>,  \* obrigado
    <<112,111,114,32,102,97,118,111,114>>  \* por favor
  }

\* The script tests with the code of Japanese misspelt.
scriptTierJp(text) ==
  LET lowerText == toLowerCase(text) IN
    IF testClass(text, devanagariLetter) \/ testClass(text, devanagariDigit) THEN "hi"
    ELSE IF testClass(text, arabicLetter) \/ testClass(text, arabicDigit) THEN "ar"
    ELSE IF testClass(lowerText, cyrillicLower) \/ testClass(text, cyrillicUpper) THEN "ru"
    ELSE IF testClass(text, japaneseClass) THEN "jp"
    ELSE IF testClass(text, hangulSyllable) THEN "ko"
    ELSE IF testClass(text, cjkIdeograph) THEN "zh"
    ELSE "none"

\* The script tests of lines 204-232, in their order; "none" when all fail.
scriptTier(text) ==
  LET lowerText == toLowerCase(text) IN
    IF testClass(text, devanagariLetter) \/ testClass(text, devanagariDigit) THEN "hi"
    ELSE IF testClass(text, arabicLetter) \/ testClass(text, arabicDigit) THEN "ar"
    ELSE IF testClass(lowerText, cyrillicLower) \/ testClass(text, cyrillicUpper) THEN "ru"
    ELSE IF testClass(text, japaneseClass) THEN "ja"
    ELSE IF testClass(text, hangulSyllable) THEN "ko"
    ELSE IF testClass(text, cjkIdeograph) THEN "zh"
    ELSE "none"

\* One Latin-script test: the diacritic class or the function words.
latinTest(lowerText, chars, words) ==
  testClass(lowerText, chars) \/ testWords(lowerText, words)

\* The Latin-script tests in alphabetical order of the language names.
latinTierAlphabetical(text) ==
  LET lowerText == toLowerCase(text) IN
    IF latinTest(lowerText, frenchChars, frenchWords) THEN "fr"
    ELSE IF latinTest(lowerText, germanChars, germanWords) THEN "de"
    ELSE IF latinTest(lowerText, italianChars, italianWords) THEN "it"
    ELSE IF latinTest(lowerText, portugueseChars, portugueseWords) THEN "pt"
    ELSE IF latinTest(lowerText, spanishChars, spanishWords) THEN "es"
    ELSE "none"

\* The Latin-script tests of lines 234-262, in their order; "none" when all fail.
latinTier(text) ==
  LET lowerText == toLowerCase(text) IN
    IF latinTest(lowerText, spanishChars, spanishWords) THEN "es"
    ELSE IF latinTest(lowerText, frenchChars, frenchWords) THEN "fr"
    ELSE IF latinTest(lowerText, germanChars, germanWords) THEN "de"
    ELSE IF latinTest(lowerText, italianChars, italianWords) THEN "it"
    ELSE IF latinTest(lowerText, portugueseChars, portugueseWords) THEN "pt"
    ELSE "none"

\* Lines 196-265 with the answer of the matcher of line 200 given: the tiers
\* the heuristic evaluates on a text, and the code it looks up.
heuristicTraceOf(text, transliterated) ==
  LET script == scriptTier(text)
      latin == latinTier(text)
  IN IF transliterated
     THEN [tiers |-> {"transliteration"}, code |-> "hi"]
     ELSE IF script # "none"
     THEN [tiers |-> {"transliteration", "script"}, code |-> script]
     ELSE IF latin # "none"
     THEN [tiers |-> {"transliteration", "script", "latin"}, code |-> latin]
     ELSE [tiers |-> {"transliteration", "script", "latin"}, code |-> "en"]

\* The heuristic with the script tier tried before the transliteration matcher.
heuristicTraceScriptFirst(text) ==
  LET script == scriptTier(text)
      latin == latinTier(text)
  IN IF script # "none"
     THEN [tiers |-> {"script"}, code |-> script]
     ELSE IF isTransliteratedHindi(text)
     THEN [tiers |-> {"script", "transliteration"}, code |-> "hi"]
     ELSE IF latin # "none"
     THEN [tiers |-> {"transliteration", "script", "latin"}, code |-> latin]
     ELSE [tiers |-> {"transliteration", "script", "latin"}, code |-> "en"]

\* The tiers the heuristic evaluates on a text, and the code it looks up.
heuristicTrace(text) == heuristicTraceOf(text, isTransliteratedHindi(text))

heuristicLanguageDetection(text) == find(heuristicTrace(text).code)

----------------------------------------------------------------------------
(* The texts detectLanguage is called on *)

\* Single characters, one or two of each class the matchers tell apart.
Characters ==
  { <<9>>,        \* tab
    <<32>>,       \* space
    <<97>>,       \* a
    <<201>>,      \* U+00C9 capital E acute
    <<223>>,      \* U+00DF sharp s
    <<231>>,      \* U+00E7 c cedilla
    <<1071>>,     \* U+042F Cyrillic capital ya
    <<1105>>,     \* U+0451 Cyrillic small io
    <<1576>>,     \* U+0628 Arabic beh
    <<2309>>,     \* U+0905 Devanagari a
    <<2366>>,     \* U+093E Devanagari vowel sign aa
    <<12371>>,    \* U+3053 hiragana ko
    <<20320>>,    \* U+4F60 CJK ideograph
    <<54620>>,    \* U+D55C Hangul syllable
    <<55296>> }   \* U+D800 lone high surrogate

\* Short words and fragments of words.
Words ==
  { <<110,97,109,97,115,116,101>>,   \* namaste
    <<104,101,108,108,111>>,         \* hello
    <<72,111,108,97>>,               \* Hola
    <<101>>,                         \* e
    <<106,105>>,                     \* ji
    <<115,104>>,                     \* sh
    <<82,117>> }                     \* Ru

\* The literal inputs the specification names.
Literals ==
  { <<98,111,110,106,111,117,114,44,32,109,101,114,99,105,32,98,101,97,117,99,111,117,112>>,
      \* bonjour, merci beaucoup
    <<110,97,109,97,115,116,101,44,32,97,97,112,32,107,97,105,115,101,32,104,111>>,
      \* namaste, aap kaise ho
    <<20320,22909,19990,30028>>,
      \* U+4F60 U+597D U+4E16 U+754C
    <<12371,12435,12395,12385,12399,19990,30028>>,
      \* U+3053 U+3093 U+306B U+3061 U+306F U+4E16 U+754C
    <<120,121,122,49,50,51>> }
      \* xyz123

Fragments == Characters \cup Words

RECURSIVE TextsOf(_)
TextsOf(n) ==
  IF n = 0 THEN { <<>> }
  ELSE LET shorter == TextsOf(n - 1)
       IN shorter \cup { t \o f : t \in shorter, f \in Fragments }

\* Up to MaxParts fragments in a row, and the literals.
Texts == TextsOf(MaxParts) \cup Literals

\* What the remote service may answer as the language of a text.
RemoteAnswers == {"fr", "und", "xx"}

----------------------------------------------------------------------------
(* TranslationService.detectLanguage *)

VARIABLES
  text,             \* the argument of the call
  pc,               \* "idle", "fetch" (awaiting fetch), "json" (awaiting response.json()), "done"
  heuristicResult,  \* the const of line 85, "unset" before the call
  tiers,            \* the tiers the heuristic of line 85 evaluated
  fetches,          \* requests issued to the remote service
  response,         \* how the remote request ended, "none" while it has not
  remoteAnswer,     \* the language in the remote answer, "none" when there is none
  settled,          \* "pending", "resolved" or "rejected": the returned promise
  result            \* the value the promise resolved to, "unset" before

\* The variables of detectLanguage but its argument.
detectVars == <<pc, heuristicResult, tiers, fetches, response, remoteAnswer, settled, result>>

\* useTranslation and TranslationService.translate.  The hook and the App
\* each hold a sourceLanguage, a targetLanguage, an isTranslating and an
\* error; a behaviour exercises one component, named by component.
VARIABLES
  component,             \* "service", "hook" or "app"
  sourceLanguage,        \* hook: the argument of translate; App: the state
  targetLanguage,        \* hook: the argument of translate; App: the state
  isTranslating,         \* useState(false)
  error,                 \* useState(null)
  hookPc,                \* "off", "idle", "detectLanguage", "translate", "returned"
  detections,            \* calls of translationService.detectLanguage by the hook
  actualSourceLanguage,  \* the let of line 21 of the hook, "unset" before
  returned,              \* what the hook's translate resolved to: a Translation, noTranslation
                         \* for null, notReturned before
  tpc,                   \* TranslationService.translate: "idle", "fetch", "json",
                         \* "fallbackFetch", "fallbackJson", "done"
  translateSource,       \* the sourceLanguage argument of TranslationService.translate
  requests               \* the translation requests issued, in order

hookVars == <<hookPc, detections, actualSourceLanguage, returned, tpc, translateSource, requests>>

sharedVars == <<component, sourceLanguage, targetLanguage, isTranslating, error>>

\* The App of TranslationHistory.tsx.
VARIABLES
  apiKey,              \* import.meta.env.VITE_GEMINI_API_KEY is set
  sourceText,          \* useState('')
  translatedText,      \* useState('')
  translationHistory,  \* useState([]), the newest first
  timers,              \* the pending timeouts of line 510, each with the values
                       \* its performTranslation closes over and the time since it was set
  runs,                \* the calls of performTranslation, in the order they started, each
                       \* with the values it closes over (inputs), its place (pc), what
                       \* it called and requested, and the state it started in
  unchanged,           \* the time since sourceText, sourceLanguage or targetLanguage changed last
  shownBy,             \* the run that set translatedText last, 0 when none did
  edits,               \* the changes the user has made in the text and the selectors
  swaps,               \* the swaps the user has made
  catalog              \* the array languages of line 236, by code

appVars == <<apiKey, sourceText, translatedText, translationHistory, timers, runs,
             unchanged, shownBy, edits, swaps, catalog>>

\* The calls of detectLanguage on the one instance of the service
\* (TranslationService.getInstance).
VARIABLES
  lastIndex,    \* the lastIndex of each regular expression of hindiPatterns, of the
                \* objects made last; << >> before any is made
  classified,   \* the calls that have ended: the text and the code returned
  calls         \* the calls made

instanceVars == <<lastIndex, classified, calls>>

\* useTranslationHistory.
VARIABLES
  history,      \* useState({translations: [], favorites: []})
  storage,      \* what localStorage holds under STORAGE_KEY
  historyPc,    \* "off", "mounted" (rendered, the effect of line 12 not run yet), "loaded"
  quota,        \* localStorage.setItem throws: the storage is full
  nextId,       \* the id of the translation added next
  ops,          \* the calls of the operations of the hook so far
  lastOp,       \* the operation of the hook that ran last
  uncaught      \* an operation of the hook has thrown to its caller

historyVars == <<history, storage, historyPc, quota, nextId, ops, lastOp, uncaught>>

\* useSpeechRecognition.
VARIABLES
  voiceState,         \* useState({isListening, isSupported, transcript, confidence})
  recognition,        \* the SpeechRecognition of recognitionRef: "none", "idle",
                      \* "starting", "running", "stopping", "ending", "failed"
  silenceTimeoutRef,  \* the id setTimeout gave last, 0 for null
  silenceTimers,      \* the timeouts pending: [id, left]
  speechPc,           \* "off", "rendered", "mounted", "unmounted"
  results,            \* the result events so far
  lastEvent           \* what ran last: an event of the recognition, "silence"
                      \* for the callback of the timeout, "none"

speechVars ==
  <<voiceState, recognition, silenceTimeoutRef, silenceTimers, speechPc, results,
    lastEvent>>

\* The variables of the components that are neither the service call, the
\* hook nor the App.
otherVars == <<instanceVars, historyVars, speechVars>>

vars == <<text, detectVars, sharedVars, hookVars, appVars, otherVars>>

null == "null"

\* The values of returned that are no Translation.
notReturned == [kind |-> "pending"]
noTranslation == [kind |-> "null"]

\* detectLanguage not called yet.
detectIdle ==
  /\ pc = "idle"
  /\ heuristicResult = "unset"
  /\ tiers = {}
  /\ fetches = 0
  /\ response = "none"
  /\ remoteAnswer = "none"
  /\ settled = "pending"
  /\ result = "unset"

\* No call of the hook.
hookOff ==
  /\ hookPc = "off"
  /\ detections = 0
  /\ actualSourceLanguage = "unset"
  /\ returned = notReturned
  /\ tpc = "idle"
  /\ translateSource = "unset"
  /\ requests = << >>

\* Lines 236-247 of TranslationHistory.tsx: the array literal of the catalog
\* of the App, by code.
appLanguages == <<"auto", "en", "hi", "es", "fr", "de", "zh", "ja", "ru">>

\* No App.
appOff ==
  /\ apiKey = FALSE
  /\ sourceText = << >>
  /\ translatedText = << >>
  /\ translationHistory = << >>
  /\ timers = {}
  /\ runs = << >>
  /\ unchanged = 0
  /\ shownBy = 0
  /\ edits = 0
  /\ swaps = 0
  /\ catalog = appLanguages

\* No call on the instance yet, no regular expression made.
instanceOff ==
  /\ lastIndex = << >>
  /\ classified = {}
  /\ calls = 0

\* Line 8: the history of a hook just mounted.
emptyHistory == [translations |-> << >>, favorites |-> << >>]

\* localStorage.getItem gives null: nothing is stored under the key.
nothingStored == [kind |-> "null", value |-> emptyHistory]

noOp == [name |-> "none", id |-> 0, known |-> FALSE]

\* No useTranslationHistory.
historyOff ==
  /\ history = emptyHistory
  /\ storage = nothingStored
  /\ historyPc = "off"
  /\ quota = FALSE
  /\ nextId = 0
  /\ ops = 0
  /\ lastOp = noOp
  /\ uncaught = FALSE

\* Lines 5-10: the voiceState of the first render.
noVoice == [isListening |-> FALSE, isSupported |-> FALSE, transcript |-> "", confidence |-> 0]

\* No useSpeechRecognition.
speechOff ==
  /\ voiceState = noVoice
  /\ recognition = "none"
  /\ silenceTimeoutRef = 0
  /\ silenceTimers = {}
  /\ speechPc = "off"
  /\ results = 0
  /\ lastEvent = "none"

othersOff == instanceOff /\ historyOff /\ speechOff

Init ==
  /\ component = "service"
  /\ text \in Texts
  /\ detectIdle
  /\ hookOff
  /\ appOff
  /\ sourceLanguage = "auto"
  /\ targetLanguage = "en"
  /\ isTranslating = FALSE
  /\ error = null
  /\ othersOff

\* return value: the promise of the async function resolves.
Return(value) ==
  /\ pc' = "done"
  /\ settled' = "resolved"
  /\ result' = value

\* A catch block that throws the error on.
CatchRethrows ==
  /\ pc' = "done"
  /\ settled' = "rejected"
  /\ UNCHANGED result

\* The catch block of lines 109-112.
Catch == Return(heuristicLanguageDetection(text))

\* Lines 83-95: detectLanguage up to its first await, with the trace of the
\* heuristic of line 85 given.
detectLanguageOf(trace) ==
  /\ pc = "idle"
  /\ heuristicResult' = find(trace.code)
  /\ tiers' = trace.tiers
  /\ IF heuristicResult' # "en" \/ isLikelyEnglish(text)
     THEN /\ Return(heuristicResult')
          /\ UNCHANGED fetches
     ELSE IF encodeURIComponentThrows(text)
     THEN /\ Catch
          /\ UNCHANGED fetches
     ELSE /\ fetches' = fetches + 1
          /\ pc' = "fetch"
          /\ UNCHANGED <<settled, result>>
  /\ UNCHANGED <<response, remoteAnswer>>

\* Lines 83-95: detectLanguage up to its first await.  The heuristic of line
\* 85 is evaluated once; find(trace.code) is heuristicLanguageDetection(text).
detectLanguageCall == detectLanguageOf(heuristicTrace(text))

\* The call with the condition of line 88 joined by && in place of ||.
CallBothNeeded ==
  /\ component = "service"
  /\ pc = "idle"
  /\ LET trace == heuristicTrace(text)
     IN /\ heuristicResult' = find(trace.code)
        /\ tiers' = trace.tiers
  /\ IF heuristicResult' # "en" /\ isLikelyEnglish(text)
     THEN /\ Return(heuristicResult')
          /\ UNCHANGED fetches
     ELSE IF encodeURIComponentThrows(text)
     THEN /\ Catch
          /\ UNCHANGED fetches
     ELSE /\ fetches' = fetches + 1
          /\ pc' = "fetch"
          /\ UNCHANGED <<settled, result>>
  /\ UNCHANGED <<text, response, remoteAnswer>>
  /\ UNCHANGED <<sharedVars, otherVars, hookVars, appVars>>

\* A call of detectLanguage on its own.
Call ==
  /\ component = "service"
  /\ detectLanguageCall
  /\ UNCHANGED <<text, sharedVars, otherVars, hookVars, appVars>>

\* fetch rejects: a network error.
FetchRejects ==
  /\ pc = "fetch"
  /\ response' = "rejected"
  /\ Catch
  /\ UNCHANGED <<text, heuristicResult, tiers, fetches, remoteAnswer>>
  /\ UNCHANGED <<sharedVars, otherVars, hookVars, appVars>>

\* Lines 97-99: a response whose status is not ok.
ResponseNotOk ==
  /\ pc = "fetch"
  /\ response' = "not ok"
  /\ Return(heuristicResult)
  /\ UNCHANGED <<text, heuristicResult, tiers, fetches, remoteAnswer>>
  /\ UNCHANGED <<sharedVars, otherVars, hookVars, appVars>>

\* Line 101: an ok response, its body awaited.
ResponseOk ==
  /\ pc = "fetch"
  /\ pc' = "json"
  /\ response' = "ok"
  /\ UNCHANGED <<text, heuristicResult, tiers, fetches, remoteAnswer, settled, result>>
  /\ UNCHANGED <<sharedVars, otherVars, hookVars, appVars>>

\* response.json() rejects: the body is no JSON.
JsonRejects ==
  /\ pc = "json"
  /\ response' = "ok, no json"
  /\ Catch
  /\ UNCHANGED <<text, heuristicResult, tiers, fetches, remoteAnswer>>
  /\ UNCHANGED <<sharedVars, otherVars, hookVars, appVars>>

\* The body is the JSON null: data.responseStatus throws a TypeError.
JsonNull ==
  /\ pc = "json"
  /\ response' = "ok, null"
  /\ Catch
  /\ UNCHANGED <<text, heuristicResult, tiers, fetches, remoteAnswer>>
  /\ UNCHANGED <<sharedVars, otherVars, hookVars, appVars>>

\* Lines 103-106 returning the language of the remote answer when the catalog
\* holds it.
JsonWithDataTrustsAnswer ==
  /\ pc = "json"
  /\ \E answer \in RemoteAnswers : remoteAnswer' = answer
  /\ response' = "ok, data"
  /\ Return(IF find(remoteAnswer') # "undefined" THEN remoteAnswer' ELSE heuristicResult)
  /\ UNCHANGED <<text, heuristicResult, tiers, fetches>>
  /\ UNCHANGED <<sharedVars, otherVars, hookVars, appVars>>

\* Lines 103-106: responseStatus 200 with responseData.
JsonWithData ==
  /\ pc = "json"
  /\ \E answer \in RemoteAnswers : remoteAnswer' = answer
  /\ response' = "ok, data"
  /\ Return(heuristicResult)
  /\ UNCHANGED <<text, heuristicResult, tiers, fetches>>
  /\ UNCHANGED <<sharedVars, otherVars, hookVars, appVars>>

\* Line 108: another status, or no responseData.
JsonWithoutData ==
  /\ pc = "json"
  /\ response' = "ok, no data"
  /\ Return(heuristicResult)
  /\ UNCHANGED <<text, heuristicResult, tiers, fetches, remoteAnswer>>
  /\ UNCHANGED <<sharedVars, otherVars, hookVars, appVars>>

Next ==
  \/ Call
  \/ FetchRejects
  \/ ResponseNotOk
  \/ ResponseOk
  \/ JsonRejects
  \/ JsonNull
  \/ JsonWithData
  \/ JsonWithoutData

Spec == Init /\ [][Next]_vars

TypeOK ==
  /\ text \in Texts
  /\ pc \in {"idle", "fetch", "json", "done"}
  /\ fetches \in 0..1
  /\ settled \in {"pending", "resolved", "rejected"}

----------------------------------------------------------------------------
(* detectLanguage called again and again on the one instance *)

\* The calls made in one behaviour.
MaxCalls == 3

\* The texts the instance is called on.
CallTexts ==
  { <<98,111,108,107,97,114>>,        \* bolkar
    <<107,101,32,120>>,               \* ke x
    <<104,111,32,103,97,121,97>>,     \* ho gaya
    <<110,97,109,97,115,116,101>>,    \* namaste
    <<104,101,108,108,111>>,          \* hello
    <<120,121,122,49,50,51>> }        \* xyz123

\* Lines 156-170: the regular expressions of hindiPatterns, in their order,
\* each with the g flag.
hindiPatterns ==
  << [kind |-> "suffix", first |-> <<106,105>>, second |-> << >>],                  \* \b\w+ji\b
     [kind |-> "suffix", first |-> <<119,97,108,97>>, second |-> << >>],            \* \b\w+wala\b
     [kind |-> "suffix", first |-> <<107,97,114>>, second |-> << >>],               \* \b\w+kar\b
     [kind |-> "particle", first |-> <<107,101>>, second |-> << >>],                \* \bke\s+\w+\b
     [kind |-> "particle", first |-> <<107,105>>, second |-> << >>],                \* \bki\s+\w+\b
     [kind |-> "particle", first |-> <<107,97>>, second |-> << >>],                 \* \bka\s+\w+\b
     [kind |-> "particle", first |-> <<109,101,105,110>>, second |-> << >>],        \* \bmein\s+\w+\b
     [kind |-> "particle", first |-> <<115,101>>, second |-> << >>],                \* \bse\s+\w+\b
     [kind |-> "particle", first |-> <<107,111>>, second |-> << >>],                \* \bko\s+\w+\b
     [kind |-> "collocation", first |-> <<114,97,104,101>>, second |-> <<104,97,105,110>>],  \* \brahe\s+hain\b
     [kind |-> "collocation", first |-> <<114,97,104,97>>, second |-> <<104,97,105>>],       \* \braha\s+hai\b
     [kind |-> "collocation", first |-> <<104,111>>, second |-> <<103,97,121,97>>],          \* \bho\s+gaya\b
     [kind |-> "collocation", first |-> <<107,97,114>>, second |-> <<100,105,121,97>> ] >>   \* \bkar\s+diya\b

\* The ends (the index of the last code unit) of the matches of a pattern
\* that start at i; the greedy quantifiers take the one farthest.
matchEnds(t, pattern, i) ==
  IF ~wordBoundary(t, i) THEN {}
  ELSE IF pattern.kind = "suffix"
  THEN { j + Len(pattern.first) - 1 : j \in
         { j \in (i + 1)..(Len(t) - Len(pattern.first) + 1) :
             /\ \A k \in i..(j - 1) : isWordChar(t[k])
             /\ startsAt(t, j, pattern.first)
             /\ wordBoundary(t, j + Len(pattern.first)) } }
  ELSE IF ~startsAt(t, i, pattern.first) THEN {}
  ELSE IF pattern.kind = "particle"
  THEN UNION { { e - 1 : e \in { e \in (j + 1)..(Len(t) + 1) :
                                   /\ \A k \in j..(e - 1) : isWordChar(t[k])
                                   /\ wordBoundary(t, e) } } : j \in
               { j \in (i + Len(pattern.first) + 1)..Len(t) :
                   \A k \in (i + Len(pattern.first))..(j - 1) : isSpace(t[k]) } }
  ELSE { j + Len(pattern.second) - 1 : j \in
         { j \in (i + Len(pattern.first) + 1)..Len(t) :
             /\ \A k \in (i + Len(pattern.first))..(j - 1) : isSpace(t[k])
             /\ startsAt(t, j, pattern.second)
             /\ wordBoundary(t, j + Len(pattern.second)) } }

\* RegExp.prototype.test of a pattern with the g flag: the search starts at
\* lastIndex (from, counted from 0), takes the leftmost match and leaves its
\* end as the lastIndex; without a match it leaves 0.  The value is the
\* lastIndex left, and the test is true when that is not 0.
testGlobal(t, pattern, from) ==
  LET starts == {i \in (from + 1)..Len(t) : matchEnds(t, pattern, i) # {}}
  IN IF starts = {} THEN 0
     ELSE LET i == CHOOSE i \in starts : \A j \in starts : i <= j
              ends == matchEnds(t, pattern, i)
          IN CHOOSE e \in ends : \A f \in ends : e >= f

\* Lines 172-176: the loop over hindiPatterns from its n-th pattern on, the
\* objects given by their lastIndex; whether one has matched, and the
\* lastIndex each object is left with.
RECURSIVE testPatterns(_, _, _)
testPatterns(t, objects, n) ==
  IF n > Len(hindiPatterns) THEN [hit |-> FALSE, lastIndex |-> objects]
  ELSE LET end == testGlobal(t, hindiPatterns[n], objects[n])
           after == [objects EXCEPT ![n] = end]
       IN IF end > 0 THEN [hit |-> TRUE, lastIndex |-> after]
          ELSE testPatterns(t, after, n + 1)

\* The array made once and kept: every call tests the objects the call
\* before has left.
hindiPatternsKept(previous) ==
  IF previous = << >> THEN [n \in 1..Len(hindiPatterns) |-> 0] ELSE previous

\* Lines 156-170: the array literal of regular expression literals is
\* evaluated in each call: new objects, each with lastIndex 0.
hindiPatternsMade(previous) == [n \in 1..Len(hindiPatterns) |-> 0]

InitInstance ==
  /\ component = "instance"
  /\ text \in CallTexts
  /\ detectIdle
  /\ hookOff
  /\ appOff
  /\ sourceLanguage = "auto"
  /\ targetLanguage = "en"
  /\ isTranslating = FALSE
  /\ error = null
  /\ othersOff

\* Lines 83-95 and 121-194: a call of detectLanguage on the instance, up to
\* its first await, isTransliteratedHindi evaluated with its regular
\* expressions as objects.  The words of hindiWords return before the
\* array of patterns is made.
InstanceCall ==
  /\ component = "instance"
  /\ pc = "idle"
  /\ LET lowerText == toLowerCase(text)
         words == vocabularyHit(lowerText)
         tested == testPatterns(lowerText, hindiPatternsMade(lastIndex), 1)
         transliterated == IF words THEN TRUE
                           ELSE IF tested.hit THEN TRUE
                           ELSE soundCount(lowerText) >= 2
     IN /\ lastIndex' = (IF words THEN lastIndex ELSE tested.lastIndex)
        /\ detectLanguageOf(heuristicTraceOf(text, transliterated))
  /\ calls' = calls + 1
  /\ UNCHANGED <<text, classified, sharedVars, hookVars, appVars, historyVars, speechVars>>

\* The call has ended and the next one is made, on any text.
InstanceNext ==
  /\ component = "instance"
  /\ pc = "done"
  /\ calls < MaxCalls
  /\ classified' = classified \cup {<<text, result>>}
  /\ text' \in CallTexts
  /\ pc' = "idle"
  /\ heuristicResult' = "unset"
  /\ tiers' = {}
  /\ fetches' = 0
  /\ response' = "none"
  /\ remoteAnswer' = "none"
  /\ settled' = "pending"
  /\ result' = "unset"
  /\ UNCHANGED <<lastIndex, calls, sharedVars, hookVars, appVars, historyVars, speechVars>>

NextInstance ==
  \/ InstanceCall
  \/ InstanceNext
  \/ FetchRejects
  \/ ResponseNotOk
  \/ ResponseOk
  \/ JsonRejects
  \/ JsonNull
  \/ JsonWithData
  \/ JsonWithoutData

SpecInstance == InitInstance /\ [][NextInstance]_vars

----------------------------------------------------------------------------
(* useTranslation and TranslationService.translate *)

\* The texts, the source and the target languages the hook is called with.
HookTexts ==
  { << >>,
    <<32>>,                            \* a space
    <<120,121,122,49,50,51>>,          \* xyz123
    <<104,101,108,108,111>>,           \* hello
    <<110,97,109,97,115,116,101>>,     \* namaste
    <<55296>> }                        \* U+D800 lone high surrogate

HookSources == {"auto", "en", "hi"}
HookTargets == {"en", "hi"}

\* A text a translation service may answer with.
translated == <<104,111,108,97>>   \* hola

\* What the service of line 7 may answer for a text: a translation, the text
\* itself, the text with a space after it.
MyMemoryAnswers(t) == {translated, t, t \o <<32>>}

\* What the service of line 66 may answer.
GoogleAnswers(t) == {translated, t}

\* The text of line 79, the names of the two languages left out.
unavailable == <<91,84,114,97,110,115,108,97,116,105,111,110,32,117,110,97,118,97,105,108,97,98,108,101,93>>

InitHook ==
  /\ component = "hook"
  /\ text \in HookTexts
  /\ sourceLanguage \in HookSources
  /\ targetLanguage \in HookTargets
  /\ isTranslating = FALSE
  /\ error = null
  /\ detectIdle
  /\ hookPc = "idle"
  /\ detections = 0
  /\ actualSourceLanguage = "unset"
  /\ returned = notReturned
  /\ tpc = "idle"
  /\ translateSource = "unset"
  /\ requests = << >>
  /\ appOff
  /\ othersOff

\* Lines 45-56 and 60-62 of the hook: the translation is returned.
HookReturns(value, source) ==
  /\ returned' = [kind |-> "Translation",
                  originalText |-> text,
                  translatedText |-> value,
                  sourceLanguage |-> source,
                  targetLanguage |-> targetLanguage]
  /\ isTranslating' = FALSE
  /\ hookPc' = "returned"

\* Lines 57-62 of the hook: the catch block and finally.
HookCatches(message) ==
  /\ error' = message
  /\ returned' = noTranslation
  /\ isTranslating' = FALSE
  /\ hookPc' = "returned"

\* TranslationService.translate resolves: the hook goes on behind its await;
\* a caller that is not the hook (hookPc is "off") holds the text.
TranslateResolves(value) ==
  /\ tpc' = "done"
  /\ IF hookPc = "off"
     THEN /\ returned' = [kind |-> "string", value |-> value]
          /\ UNCHANGED <<isTranslating, hookPc>>
     ELSE HookReturns(value, actualSourceLanguage)
  /\ UNCHANGED error

\* Lines 50-60 of the service: the catch block throws, to the catch of the
\* hook or to the caller that is not the hook.
TranslateThrows(message) ==
  /\ tpc' = "done"
  /\ IF hookPc = "off"
     THEN /\ returned' = [kind |-> "Error", message |-> message]
          /\ UNCHANGED <<isTranslating, hookPc, error>>
     ELSE HookCatches(message)

\* No two languages pass for the same.
sameLanguageNever(source, target) == FALSE

\* Lines 30 and 38 of the hook, line 21 of the service: the codes of the two
\* languages are the same.
sameLanguage(source, target) == source = target

\* Lines 34 and 41 of the hook and lines 18-30 of the service: translate is
\* called with the source and runs up to its first await.
HookCallsTranslate(source) ==
  /\ translateSource' = source
  /\ IF sameLanguage(source, targetLanguage)
     THEN /\ tpc' = "done"
          /\ HookReturns(text, source)
          /\ error' = null
          /\ UNCHANGED requests
     ELSE IF encodeURIComponentThrows(text)
     THEN /\ tpc' = "done"
          /\ HookCatches("Translation failed. Please try again.")
          /\ UNCHANGED requests
     ELSE /\ requests' = Append(requests,
                                [api |-> "mymemory", source |-> source, target |-> targetLanguage])
          /\ tpc' = "fetch"
          /\ hookPc' = "translate"
          /\ isTranslating' = TRUE
          /\ error' = null
          /\ UNCHANGED returned

\* Every source language goes through the detection.
needsDetectionAlways(source) == TRUE

\* Line 25 of the hook, line 474 of the App: the source language is auto.
needsDetection(source) == source = "auto"

\* Lines 15-43 of the hook: translate is called and runs up to its first
\* await, or to its end when it awaits nothing.
HookTranslate ==
  /\ component = "hook"
  /\ hookPc = "idle"
  /\ IF trim(text) = << >>
     THEN /\ returned' = noTranslation
          /\ hookPc' = "returned"
          /\ UNCHANGED <<detectVars, isTranslating, error, detections,
                         actualSourceLanguage, tpc, translateSource, requests>>
     ELSE IF needsDetection(sourceLanguage)
     THEN /\ detections' = detections + 1
          /\ detectLanguageCall
          /\ hookPc' = "detectLanguage"
          /\ isTranslating' = TRUE
          /\ error' = null
          /\ UNCHANGED <<actualSourceLanguage, returned, tpc, translateSource, requests>>
     ELSE /\ actualSourceLanguage' = sourceLanguage
          /\ IF sameLanguage(sourceLanguage, targetLanguage)
             THEN /\ HookReturns(text, sourceLanguage)
                  /\ error' = null
                  /\ UNCHANGED <<tpc, translateSource, requests>>
             ELSE HookCallsTranslate(sourceLanguage)
          /\ UNCHANGED <<detectVars, detections>>
  /\ UNCHANGED <<text, component, otherVars, sourceLanguage, targetLanguage, appVars>>

\* Lines 27-35 of the hook: detectLanguage has resolved.
HookAfterDetect ==
  /\ component = "hook"
  /\ hookPc = "detectLanguage"
  /\ pc = "done"
  /\ settled = "resolved"
  /\ actualSourceLanguage' = result
  /\ IF sameLanguage(result, targetLanguage)
     THEN /\ HookReturns(text, result)
          /\ UNCHANGED <<error, tpc, translateSource, requests>>
     ELSE HookCallsTranslate(result)
  /\ UNCHANGED <<text, detectVars, component, otherVars, sourceLanguage, targetLanguage, detections, appVars>>

\* What a step of TranslationService.translate leaves alone.
translateFrame ==
  UNCHANGED <<text, detectVars, component, otherVars, sourceLanguage, targetLanguage,
              detections, actualSourceLanguage, translateSource, appVars>>

\* Line 30: fetch rejects.  The message of the error is the browser's: it
\* holds the word fetch (line 55) or it does not.
TranslateFetchRejects ==
  /\ tpc = "fetch"
  /\ \E message \in {"Translation service unavailable. Please check your internet connection.",
                     "Translation failed. Please try again."} :
       TranslateThrows(message)
  /\ UNCHANGED requests
  /\ translateFrame

\* Lines 32-34: a response whose status is not ok.
TranslateResponseNotOk ==
  /\ tpc = "fetch"
  /\ TranslateThrows("Translation failed. Please try again.")
  /\ UNCHANGED requests
  /\ translateFrame

\* Line 36: an ok response, its body awaited.
TranslateResponseOk ==
  /\ tpc = "fetch"
  /\ tpc' = "json"
  /\ UNCHANGED <<requests, hookPc, returned, isTranslating, error>>
  /\ translateFrame

\* Line 36: response.json() rejects.
TranslateJsonRejects ==
  /\ tpc = "json"
  /\ TranslateThrows("Translation failed. Please try again.")
  /\ UNCHANGED requests
  /\ translateFrame

\* Lines 48-50: another status, or no responseData.
TranslateJsonWithoutData ==
  /\ tpc = "json"
  /\ TranslateThrows("Translation failed. Please try again.")
  /\ UNCHANGED requests
  /\ translateFrame

\* Line 42: the answer is the text, but for case and white space at the ends.
sameText(answer, t) == trim(toLowerCase(answer)) = trim(toLowerCase(t))

\* Lines 38-47 and 63-68: responseStatus 200 with responseData.  An answer
\* that is the text again goes to fallbackTranslation, up to its first await.
TranslateJsonWithData ==
  /\ tpc = "json"
  /\ \E answer \in MyMemoryAnswers(text) :
       IF sameText(answer, text)
       THEN /\ requests' = Append(requests,
                                  [api |-> "google", source |-> translateSource,
                                   target |-> targetLanguage])
            /\ tpc' = "fallbackFetch"
            /\ UNCHANGED <<hookPc, returned, isTranslating, error>>
       ELSE /\ TranslateResolves(answer)
            /\ UNCHANGED requests
  /\ translateFrame

\* Lines 68 and 75-79: the fetch of fallbackTranslation rejects.
FallbackFetchRejects ==
  /\ tpc = "fallbackFetch"
  /\ TranslateResolves(unavailable)
  /\ UNCHANGED requests
  /\ translateFrame

\* Lines 68-69: a response, whatever its status; its body awaited.
FallbackResponse ==
  /\ tpc = "fallbackFetch"
  /\ tpc' = "fallbackJson"
  /\ UNCHANGED <<requests, hookPc, returned, isTranslating, error>>
  /\ translateFrame

\* Lines 69 and 75-79: response.json() rejects.
FallbackJsonRejects ==
  /\ tpc = "fallbackJson"
  /\ TranslateResolves(unavailable)
  /\ UNCHANGED requests
  /\ translateFrame

\* Lines 71-73: the body holds a text at [0][0][0].
FallbackJsonWithData ==
  /\ tpc = "fallbackJson"
  /\ \E answer \in GoogleAnswers(text) : TranslateResolves(answer)
  /\ UNCHANGED requests
  /\ translateFrame

\* Lines 71 and 79: the body holds no text there.
FallbackJsonWithoutData ==
  /\ tpc = "fallbackJson"
  /\ TranslateResolves(unavailable)
  /\ UNCHANGED requests
  /\ translateFrame

\* Line 69 of the hook: clearError.
ClearError ==
  /\ component = "hook"
  /\ error # null
  /\ error' = null
  /\ UNCHANGED <<text, detectVars, component, otherVars, sourceLanguage, targetLanguage,
                 isTranslating, hookVars, appVars>>

NextHook ==
  \/ HookTranslate
  \/ FetchRejects
  \/ ResponseNotOk
  \/ ResponseOk
  \/ JsonRejects
  \/ JsonNull
  \/ JsonWithData
  \/ JsonWithoutData
  \/ HookAfterDetect
  \/ TranslateFetchRejects
  \/ TranslateResponseNotOk
  \/ TranslateResponseOk
  \/ TranslateJsonRejects
  \/ TranslateJsonWithoutData
  \/ TranslateJsonWithData
  \/ FallbackFetchRejects
  \/ FallbackResponse
  \/ FallbackJsonRejects
  \/ FallbackJsonWithData
  \/ FallbackJsonWithoutData
  \/ ClearError

SpecHook == InitHook /\ [][NextHook]_vars

\* TranslationService.translate called by itself, not through the hook.
InitTranslate ==
  /\ component = "translate"
  /\ text \in HookTexts
  /\ sourceLanguage \in HookSources
  /\ targetLanguage \in HookTargets
  /\ isTranslating = FALSE
  /\ error = null
  /\ detectIdle
  /\ hookOff
  /\ appOff
  /\ othersOff

\* Lines 18-30 of the service: translate up to its first await.
TranslateCall ==
  /\ component = "translate"
  /\ tpc = "idle"
  /\ translateSource' = sourceLanguage
  /\ IF sameLanguage(sourceLanguage, targetLanguage)
     THEN /\ tpc' = "done"
          /\ returned' = [kind |-> "string", value |-> text]
          /\ UNCHANGED requests
     ELSE IF encodeURIComponentThrows(text)
     THEN /\ tpc' = "done"
          /\ returned' = [kind |-> "Error", message |-> "Translation failed. Please try again."]
          /\ UNCHANGED requests
     ELSE /\ requests' = Append(requests,
                                [api |-> "mymemory", source |-> sourceLanguage,
                                 target |-> targetLanguage])
          /\ tpc' = "fetch"
          /\ UNCHANGED returned
  /\ UNCHANGED <<text, detectVars, sharedVars, otherVars, hookPc, detections, actualSourceLanguage, appVars>>

InitTranslation == InitHook \/ InitTranslate

NextTranslation == NextHook \/ TranslateCall

\* The hook, or TranslationService.translate by itself.
SpecTranslation == InitTranslation /\ [][NextTranslation]_vars

----------------------------------------------------------------------------
(* useTranslationHistory *)

\* Line 45: the entries addTranslation keeps of the history before.
Kept == 99

\* The calls of addTranslation, toggleFavorite, deleteTranslation and
\* clearHistory in one behaviour.
MaxOps == 4

\* A translation as useTranslation makes it (lines 45-54 of that hook): its
\* id, isFavorite false, its timestamp a Date.  Of a timestamp the model
\* keeps whether it is a Date or a string, and the time.
Translation(id) ==
  [id |-> id, isFavorite |-> FALSE, timestamp |-> [type |-> "Date", time |-> id]]

\* Line 35: JSON.stringify(newHistory), as the value stored.  In the text
\* every Date is its ISO string.
stringify(newHistory) ==
  LET stringifyAll(translations) ==
        [i \in 1..Len(translations) |->
           [translations[i] EXCEPT !.timestamp.type = "string"]]
  IN [kind |-> "history",
      value |-> [translations |-> stringifyAll(newHistory.translations),
                 favorites |-> stringifyAll(newHistory.favorites)]]

\* Lines 18-25: map(t => ({...t, timestamp: new Date(t.timestamp)})).
reviveAll(translations) ==
  [i \in 1..Len(translations) |-> [translations[i] EXCEPT !.timestamp.type = "Date"]]

\* What localStorage may hold under the key when the hook mounts: nothing, a
\* text that is no JSON, a JSON value that is no history ({}, [], 0), a
\* history saved by the hook before: the empty one, and the one that
\* Kept + 1 calls of addTranslation leave, with the ids 1 to Kept + 1, the
\* newest first, none a favorite.
StoredValues ==
  LET fullHistory ==
        [translations |-> [i \in 1..(Kept + 1) |-> Translation(Kept + 2 - i)],
         favorites |-> << >>]
  IN { nothingStored,
       [kind |-> "text", value |-> emptyHistory],
       [kind |-> "json", value |-> emptyHistory],
       stringify(emptyHistory),
       stringify(fullHistory) }

InitHistory ==
  /\ component = "history"
  /\ history = emptyHistory
  /\ storage \in StoredValues
  /\ historyPc = "mounted"
  /\ quota \in BOOLEAN
  /\ nextId = Kept + 2
  /\ ops = 0
  /\ lastOp = noOp
  /\ uncaught = FALSE
  /\ text = << >>
  /\ detectIdle
  /\ hookOff
  /\ appOff
  /\ sourceLanguage = "auto"
  /\ targetLanguage = "en"
  /\ isTranslating = FALSE
  /\ error = null
  /\ instanceOff
  /\ speechOff

\* What a step of useTranslationHistory leaves alone.
historyFrame ==
  UNCHANGED <<text, detectVars, sharedVars, hookVars, appVars, instanceVars, speechVars,
              quota>>

\* The effect of line 12 without its try: what JSON.parse and map throw
\* reaches the caller.
LoadHistoryWithoutTry ==
  /\ component = "history"
  /\ historyPc = "mounted"
  /\ historyPc' = "loaded"
  /\ lastOp' = [name |-> "load", id |-> 0, known |-> FALSE]
  /\ IF storage.kind = "history"
     THEN /\ history' = [translations |-> reviveAll(storage.value.translations),
                         favorites |-> reviveAll(storage.value.favorites)]
          /\ UNCHANGED uncaught
     ELSE /\ uncaught' = (storage.kind # "null")
          /\ UNCHANGED history
  /\ UNCHANGED <<storage, nextId, ops>>
  /\ historyFrame

\* Lines 12-31: the effect that runs once after the first render.  A text
\* that is no JSON throws in JSON.parse, a JSON value that is no history
\* throws in parsed.translations.map; both inside the try.
LoadHistory ==
  /\ component = "history"
  /\ historyPc = "mounted"
  /\ historyPc' = "loaded"
  /\ lastOp' = [name |-> "load", id |-> 0, known |-> FALSE]
  /\ IF storage.kind = "history"
     THEN history' = [translations |-> reviveAll(storage.value.translations),
                      favorites |-> reviveAll(storage.value.favorites)]
     ELSE UNCHANGED history
  /\ UNCHANGED <<storage, nextId, ops, uncaught>>
  /\ historyFrame

\* saveHistory storing the history of the render it was made in.
saveHistoryStale(newHistory) ==
  storage' = (IF quota THEN storage ELSE stringify(history))

\* Lines 33-39: saveHistory; setItem throwing is caught.
saveHistory(newHistory) ==
  storage' = (IF quota THEN storage ELSE stringify(newHistory))

\* The history before, one entry more than Kept of it.
recentAndOne(translations) ==
  SubSeq(translations, 1, IF Len(translations) < Kept + 1 THEN Len(translations) ELSE Kept + 1)

\* Line 45: prev.translations.slice(0, 99).
recent(translations) ==
  SubSeq(translations, 1, IF Len(translations) < Kept THEN Len(translations) ELSE Kept)

\* Lines 41-50.
addTranslation ==
  /\ component = "history"
  /\ historyPc = "loaded"
  /\ ops < MaxOps
  /\ ops' = ops + 1
  /\ LET newHistory ==
           [history EXCEPT !.translations = <<Translation(nextId)>> \o recent(@)]
     IN /\ saveHistory(newHistory)
        /\ history' = newHistory
  /\ nextId' = nextId + 1
  /\ lastOp' = [name |-> "add", id |-> nextId, known |-> FALSE]
  /\ UNCHANGED <<historyPc, uncaught>>
  /\ historyFrame

\* The ids toggleFavorite and deleteTranslation are called with: of the
\* newest and of the oldest translation, of the favorites, and one of no
\* translation.
TargetIds ==
  {0}
    \cup {history.translations[i].id : i \in {1, Len(history.translations)} \cap DOMAIN history.translations}
    \cup {history.favorites[i].id : i \in 1..Len(history.favorites)}

\* Array.prototype.filter(t => t.id !== translationId).
without(translations, translationId) ==
  SelectSeq(translations, LAMBDA t : t.id # translationId)

\* Lines 52-71.
toggleFavorite ==
  /\ component = "history"
  /\ historyPc = "loaded"
  /\ ops < MaxOps
  /\ ops' = ops + 1
  /\ \E translationId \in TargetIds :
       LET found == {i \in 1..Len(history.translations) :
                       history.translations[i].id = translationId}
       IN IF found = {}
          THEN /\ lastOp' = [name |-> "toggle", id |-> translationId, known |-> FALSE]
               /\ UNCHANGED <<history, storage>>
          ELSE LET translation ==
                     history.translations[CHOOSE i \in found : \A j \in found : i <= j]
                   updatedTranslation ==
                     [translation EXCEPT !.isFavorite = ~translation.isFavorite]
                   newHistory ==
                     [translations |->
                        [i \in 1..Len(history.translations) |->
                           IF history.translations[i].id = translationId
                           THEN updatedTranslation
                           ELSE history.translations[i]],
                      favorites |->
                        IF updatedTranslation.isFavorite
                        THEN <<updatedTranslation>> \o history.favorites
                        ELSE without(history.favorites, translationId)]
               IN /\ saveHistory(newHistory)
                  /\ history' = newHistory
                  /\ lastOp' = [name |-> "toggle", id |-> translationId, known |-> TRUE]
  /\ UNCHANGED <<historyPc, nextId, uncaught>>
  /\ historyFrame

\* Lines 73-82.
deleteTranslation ==
  /\ component = "history"
  /\ historyPc = "loaded"
  /\ ops < MaxOps
  /\ ops' = ops + 1
  /\ \E translationId \in TargetIds :
       LET newHistory ==
             [translations |-> without(history.translations, translationId),
              favorites |-> without(history.favorites, translationId)]
       IN /\ saveHistory(newHistory)
          /\ history' = newHistory
          /\ lastOp' = [name |-> "delete", id |-> translationId,
                        known |-> \E i \in 1..Len(history.translations) :
                                    history.translations[i].id = translationId]
  /\ UNCHANGED <<historyPc, nextId, uncaught>>
  /\ historyFrame

\* Lines 84-88.
clearHistory ==
  /\ component = "history"
  /\ historyPc = "loaded"
  /\ ops < MaxOps
  /\ ops' = ops + 1
  /\ LET newHistory == emptyHistory
     IN /\ history' = newHistory
        /\ saveHistory(newHistory)
  /\ lastOp' = [name |-> "clear", id |-> 0, known |-> FALSE]
  /\ UNCHANGED <<historyPc, nextId, uncaught>>
  /\ historyFrame

NextHistory ==
  \/ LoadHistory
  \/ addTranslation
  \/ toggleFavorite
  \/ deleteTranslation
  \/ clearHistory

SpecHistory == InitHistory /\ [][NextHistory]_vars

----------------------------------------------------------------------------
(* useSpeechRecognition *)

\* Line 62: the delay of the silence timeout, in ms.
Silence == 3000

\* The time one step of the clock takes, in ms: a third of the delay.
SilenceTick == Silence \div 3

\* The result events of one behaviour.
MaxResults == 3

InitSpeech ==
  /\ component = "speech"
  /\ voiceState = noVoice
  /\ recognition = "none"
  /\ silenceTimeoutRef = 0
  /\ silenceTimers = {}
  /\ speechPc = "rendered"
  /\ results = 0
  /\ lastEvent = "none"
  /\ text = << >>
  /\ detectIdle
  /\ hookOff
  /\ appOff
  /\ sourceLanguage = "auto"
  /\ targetLanguage = "en"
  /\ isTranslating = FALSE
  /\ error = null
  /\ instanceOff
  /\ historyOff

\* What a step of useSpeechRecognition leaves alone.
speechFrame ==
  UNCHANGED <<text, detectVars, sharedVars, hookVars, appVars, instanceVars, historyVars>>

\* Lines 53-55, 72-74, 84-86: if (silenceTimeoutRef.current)
\* clearTimeout(silenceTimeoutRef.current).  Clearing a timeout that has
\* fired or has been cleared does nothing.
clearTimeout(pending) == {t \in pending : t.id # silenceTimeoutRef}

\* SpeechRecognition.stop(): a recognition that runs gives what it has heard
\* as a last result and ends ("stopping"), one that is starting ends with no
\* result ("ending"); the end event follows.  On any other it does nothing.
stop ==
  CASE recognition = "running" -> "stopping"
    [] recognition = "starting" -> "ending"
    [] OTHER -> recognition

\* Lines 15-78: the effect of the mount.  Where the browser has no
\* SpeechRecognition nothing is made.
SpeechEffect ==
  /\ component = "speech"
  /\ speechPc = "rendered"
  /\ speechPc' = "mounted"
  /\ \E SpeechRecognition \in BOOLEAN :
       IF SpeechRecognition
       THEN /\ voiceState' = [voiceState EXCEPT !.isSupported = TRUE]
            /\ recognition' = "idle"
       ELSE UNCHANGED <<voiceState, recognition>>
  /\ UNCHANGED <<silenceTimeoutRef, silenceTimers, results, lastEvent>>
  /\ speechFrame

\* Lines 90-96.  start() on a recognition that has started throws
\* InvalidStateError: line 94 is not reached and no state changes.
startListening ==
  /\ component = "speech"
  /\ speechPc = "mounted"
  /\ recognition = "idle"
  /\ voiceState.isSupported
  /\ recognition' = "starting"
  /\ voiceState' = [voiceState EXCEPT !.transcript = "", !.confidence = 0]
  /\ UNCHANGED <<silenceTimeoutRef, silenceTimers, speechPc, results, lastEvent>>
  /\ speechFrame

\* Lines 98-102.
stopListening ==
  /\ component = "speech"
  /\ speechPc = "mounted"
  /\ recognition # "none"
  /\ recognition' = stop
  /\ UNCHANGED <<voiceState, silenceTimeoutRef, silenceTimers, speechPc, results, lastEvent>>
  /\ speechFrame

\* Lines 26-28.
onstart ==
  /\ component = "speech"
  /\ recognition = "starting"
  /\ recognition' = "running"
  /\ voiceState' = [voiceState EXCEPT !.isListening = TRUE]
  /\ lastEvent' = "start"
  /\ UNCHANGED <<silenceTimeoutRef, silenceTimers, speechPc, results>>
  /\ speechFrame

\* Lines 30-63.  A result comes while the recognition runs, and after stop()
\* for what was heard until then.  The transcript is "final" or "interim"
\* for the text of line 43, the confidence 9 for 0.9, or 0 where the result
\* carries none (line 44).
onresult ==
  /\ component = "speech"
  /\ recognition \in {"running", "stopping"}
  /\ results < MaxResults
  /\ results' = results + 1
  /\ \E fullTranscript \in {"final", "interim"}, confidence \in {0, 9} :
       voiceState' = [voiceState EXCEPT !.transcript = fullTranscript,
                                        !.confidence = confidence]
  /\ silenceTimeoutRef' = results + 1
  /\ silenceTimers' = clearTimeout(silenceTimers)
                        \cup {[id |-> results + 1, left |-> Silence]}
  /\ lastEvent' = "result"
  /\ UNCHANGED <<recognition, speechPc>>
  /\ speechFrame

\* onerror clearing the timeout as onend does.
onerrorClears ==
  /\ component = "speech"
  /\ recognition \in {"starting", "running", "stopping", "ending"}
  /\ recognition' = "failed"
  /\ voiceState' = [voiceState EXCEPT !.isListening = FALSE]
  /\ silenceTimers' = clearTimeout(silenceTimers)
  /\ lastEvent' = "error"
  /\ UNCHANGED <<silenceTimeoutRef, speechPc, results>>
  /\ speechFrame

\* Lines 65-68.  The session of a recognition that has failed is over; its
\* end event follows.
onerror ==
  /\ component = "speech"
  /\ recognition \in {"starting", "running", "stopping", "ending"}
  /\ recognition' = "failed"
  /\ voiceState' = [voiceState EXCEPT !.isListening = FALSE]
  /\ lastEvent' = "error"
  /\ UNCHANGED <<silenceTimeoutRef, silenceTimers, speechPc, results>>
  /\ speechFrame

\* Lines 70-75.  The end event comes after stop(), after an error, and when
\* the service ends the session by itself.
onend ==
  /\ component = "speech"
  /\ recognition \in {"running", "stopping", "ending", "failed"}
  /\ recognition' = "idle"
  /\ voiceState' = [voiceState EXCEPT !.isListening = FALSE]
  /\ silenceTimers' = clearTimeout(silenceTimers)
  /\ lastEvent' = "end"
  /\ UNCHANGED <<silenceTimeoutRef, speechPc, results>>
  /\ speechFrame

\* SilenceTick ms pass; a timeout that is due fires first.
SilenceTicks ==
  /\ component = "speech"
  /\ silenceTimers # {}
  /\ \A t \in silenceTimers : t.left > 0
  /\ silenceTimers' = {[t EXCEPT !.left = t.left - SilenceTick] : t \in silenceTimers}
  /\ UNCHANGED <<voiceState, recognition, silenceTimeoutRef, speechPc, results, lastEvent>>
  /\ speechFrame

\* Lines 58-62: the callback of the timeout, Silence ms after it was set.
SilenceTimerFires ==
  /\ component = "speech"
  /\ \E t \in silenceTimers :
       /\ t.left <= 0
       /\ silenceTimers' = silenceTimers \ {t}
  /\ recognition' = stop
  /\ lastEvent' = "silence"
  /\ UNCHANGED <<voiceState, silenceTimeoutRef, speechPc, results>>
  /\ speechFrame

\* Lines 80-87: the cleanup of the effect, at the unmount.
SpeechCleanup ==
  /\ component = "speech"
  /\ speechPc = "mounted"
  /\ speechPc' = "unmounted"
  /\ recognition' = stop
  /\ silenceTimers' = clearTimeout(silenceTimers)
  /\ UNCHANGED <<voiceState, silenceTimeoutRef, results, lastEvent>>
  /\ speechFrame

NextSpeech ==
  \/ SpeechEffect
  \/ startListening
  \/ stopListening
  \/ onstart
  \/ onresult
  \/ onerror
  \/ onend
  \/ SilenceTicks
  \/ SilenceTimerFires
  \/ SpeechCleanup

SpecSpeech == InitSpeech /\ [][NextSpeech]_vars

----------------------------------------------------------------------------
(* The App of TranslationHistory.tsx *)

\* Line 510: the delay of the timeout, in milliseconds.
Delay == 700

\* Time passes in steps of Delay \div Steps milliseconds.
Steps == 2

\* The changes the user makes in one behaviour.
MaxEdits == 2

\* The swaps the user makes in one behaviour.
MaxSwaps == 1

tick == Delay \div Steps

\* The code units of each code.
codeUnits ==
  [auto |-> <<97,117,116,111>>, en |-> <<101,110>>, hi |-> <<104,105>>, es |-> <<101,115>>, fr |-> <<102,114>>,
   de |-> <<100,101>>, zh |-> <<122,104>>, ja |-> <<106,97>>, ru |-> <<114,117>>]

\* languages.find(lang => lang.code === detectedCode), by code.
appFind(detectedCode) ==
  LET found == {i \in 1..Len(catalog) : codeUnits[catalog[i]] = detectedCode}
  IN IF found = {} THEN "undefined"
     ELSE catalog[CHOOSE i \in found : \A j \in found : i <= j]

\* String.prototype.slice(0, n).
slice(t, n) == SubSeq(t, 1, IF Len(t) < n THEN Len(t) ELSE n)

und == <<117,110,100>>

\* What the user types, and the languages the user selects.
AppTexts ==
  { << >>,
    <<32>>,                            \* a space
    <<104,101,108,108,111>>,           \* hello
    <<110,97,109,97,115,116,101>> }    \* namaste

AppSources == {"auto", "hi"}

\* The codes a change of the target selector may come with.
AppTargets == {"auto", "en", "hi"}

\* What the model may answer to the prompt of line 441.
GeminiDetections ==
  { <<104,105>>,          \* hi
    <<117,110,100>>,     \* und
    <<69,115,116,111,110,105,97,110>> }   \* Estonian

\* What the model may answer to the prompt of line 453.
GeminiTranslations == {translated}

detectionError == "Could not confidently auto-detect language. Please select it manually."
translationError == "An error occurred during translation. Please try again."

\* The values the effect of line 461 depends on, but the two callbacks, which
\* never change.
current == [text |-> sourceText, source |-> sourceLanguage, target |-> targetLanguage]

InitApp ==
  /\ component = "app"
  /\ apiKey \in BOOLEAN
  /\ catalog = appLanguages
  /\ sourceLanguage = appLanguages[1]
  /\ targetLanguage = appLanguages[2]
  /\ sourceText = << >>
  /\ translatedText = << >>
  /\ isTranslating = FALSE
  /\ error = null
  /\ translationHistory = << >>
  /\ timers = {[inputs |-> [text |-> << >>, source |-> appLanguages[1], target |-> appLanguages[2]],
                elapsed |-> 0]}
  /\ runs = << >>
  /\ unchanged = 0
  /\ shownBy = 0
  /\ edits = 0
  /\ swaps = 0
  /\ text = << >>
  /\ detectIdle
  /\ hookOff
  /\ othersOff

\* What a step of the App leaves alone.
appFrame == UNCHANGED <<text, detectVars, hookVars, component, otherVars, apiKey>>

\* The effect without its cleanup: a timeout for each change, none cleared.
EffectWithoutCleanup(inputs) ==
  /\ timers' = timers \cup {[inputs |-> inputs, elapsed |-> 0]}
  /\ unchanged' = 0

\* Lines 461 and 510-512: a value the effect depends on has changed.  The
\* cleanup of the effect before clears its timeout, the effect sets a new one
\* for performTranslation over the new values.
Effect(inputs) ==
  /\ timers' = {t \in timers : t.inputs # current} \cup {[inputs |-> inputs, elapsed |-> 0]}
  /\ unchanged' = 0

\* Every language is offered, the flag or not.
availableLanguagesAll(excludeAuto) == catalog

\* Lines 255-257: the languages a selector offers, languages.filter making a
\* new array.
availableLanguages(excludeAuto) ==
  IF excludeAuto THEN SelectSeq(catalog, LAMBDA lang : lang # "auto") ELSE catalog

\* The selector taking auto out of the array languages itself, as splice does.
LanguageSelectorSplices(excludeAuto, code) ==
  /\ catalog' = (IF excludeAuto THEN SelectSeq(catalog, LAMBDA lang : lang # "auto") ELSE catalog)
  /\ \E i \in 1..Len(catalog') : catalog'[i] = code

\* Lines 255-257 and 267-272: a selector is rendered and its onChange finds
\* the code among the languages it offers.
LanguageSelector(excludeAuto, code) ==
  /\ \E i \in 1..Len(availableLanguages(excludeAuto)) : availableLanguages(excludeAuto)[i] = code
  /\ UNCHANGED catalog

\* onTextChange={setSourceText}
TextChange ==
  /\ component = "app"
  /\ edits < MaxEdits
  /\ \E t \in AppTexts \ {sourceText} :
       /\ sourceText' = t
       /\ Effect([current EXCEPT !.text = t])
  /\ edits' = edits + 1
  /\ UNCHANGED <<sourceLanguage, targetLanguage, translatedText, isTranslating, error,
                 translationHistory, runs, shownBy>>
  /\ UNCHANGED <<catalog, swaps>>
  /\ appFrame

\* onLanguageChange={setSourceLanguage}
SourceChange ==
  /\ component = "app"
  /\ edits < MaxEdits
  /\ \E l \in AppSources \ {sourceLanguage} :
       /\ LanguageSelector(FALSE, l)
       /\ sourceLanguage' = l
       /\ Effect([current EXCEPT !.source = l])
  /\ edits' = edits + 1
  /\ UNCHANGED <<sourceText, targetLanguage, translatedText, isTranslating, error,
                 translationHistory, runs, shownBy>>
  /\ UNCHANGED swaps
  /\ appFrame

\* onLanguageChange={setTargetLanguage}, of the selector without auto.
TargetChange ==
  /\ component = "app"
  /\ edits < MaxEdits
  /\ \E l \in AppTargets \ {targetLanguage} :
       /\ LanguageSelector(TRUE, l)
       /\ targetLanguage' = l
       /\ Effect([current EXCEPT !.target = l])
  /\ edits' = edits + 1
  /\ UNCHANGED <<sourceText, sourceLanguage, translatedText, isTranslating, error,
                 translationHistory, runs, shownBy>>
  /\ UNCHANGED swaps
  /\ appFrame

\* The handler swapping whatever the source language is.
handleSwapLanguagesAlways ==
  /\ component = "app"
  /\ swaps < MaxSwaps
  /\ ~isTranslating
  /\ sourceLanguage' = targetLanguage
  /\ targetLanguage' = sourceLanguage
  /\ sourceText' = translatedText
  /\ translatedText' = sourceText
  /\ error' = null
  /\ shownBy' = 0
  /\ LET inputs == [text |-> translatedText, source |-> targetLanguage, target |-> sourceLanguage]
     IN IF inputs # current
        THEN Effect(inputs)
        ELSE UNCHANGED <<timers, unchanged>>
  /\ swaps' = swaps + 1
  /\ UNCHANGED <<isTranslating, translationHistory, runs, edits>>
  /\ UNCHANGED catalog
  /\ appFrame

\* Lines 515-526, behind the button that is disabled while isTranslating
\* (line 611).  The button is disabled too while the source is auto; the
\* handler tests the source itself (line 516) and does nothing then.
handleSwapLanguages ==
  /\ component = "app"
  /\ swaps < MaxSwaps
  /\ ~isTranslating
  /\ IF sourceLanguage # "auto"
     THEN /\ sourceLanguage' = targetLanguage
          /\ targetLanguage' = sourceLanguage
          /\ sourceText' = translatedText
          /\ translatedText' = sourceText
          /\ error' = null
          /\ shownBy' = 0
          /\ LET inputs == [text |-> translatedText, source |-> targetLanguage,
                            target |-> sourceLanguage]
             IN IF inputs # current
                THEN Effect(inputs)
                ELSE UNCHANGED <<timers, unchanged>>
          /\ swaps' = swaps + 1
     ELSE UNCHANGED <<sourceLanguage, targetLanguage, sourceText, translatedText, error,
                      shownBy, timers, unchanged, swaps>>
  /\ UNCHANGED <<isTranslating, translationHistory, runs, edits>>
  /\ UNCHANGED catalog
  /\ appFrame

\* Time passes.
Tick ==
  /\ component = "app"
  /\ unchanged < Delay \/ \E t \in timers : t.elapsed < Delay
  /\ unchanged' = (IF unchanged + tick > Delay THEN Delay ELSE unchanged + tick)
  /\ timers' = {[t EXCEPT !.elapsed = (IF @ + tick > Delay THEN Delay ELSE @ + tick)] : t \in timers}
  /\ UNCHANGED <<sourceText, sourceLanguage, targetLanguage, translatedText, isTranslating,
                 error, translationHistory, runs, shownBy, edits>>
  /\ UNCHANGED <<catalog, swaps>>
  /\ appFrame

\* A call of performTranslation that has just started.
started(inputs) ==
  [inputs |-> inputs, pc |-> "start", actual |-> inputs.source,
   detectCalls |-> 0, detectRequests |-> 0, answered |-> FALSE, answer |-> << >>,
   translateSource |-> "unset", translateRequests |-> 0,
   quiet |-> unchanged, state |-> current, edit |-> edits + swaps]

\* Lines 463-472 and 486, 502-508: the timeout runs performTranslation, up to
\* its first await.  callGeminiApi throws at once without a key (line 416),
\* to the catch of line 502.
TimerFires ==
  /\ component = "app"
  /\ \E t \in timers :
       /\ t.elapsed >= Delay
       /\ timers' = timers \ {t}
       /\ LET run == started(t.inputs)
              k == Len(runs) + 1
          IN IF trim(t.inputs.text) = << >>
             THEN /\ translatedText' = << >>
                  /\ error' = null
                  /\ shownBy' = k
                  /\ runs' = Append(runs, [run EXCEPT !.pc = "done"])
                  /\ UNCHANGED isTranslating
             ELSE IF ~apiKey
             THEN /\ error' = translationError
                  /\ translatedText' = << >>
                  /\ shownBy' = k
                  /\ isTranslating' = FALSE
                  /\ runs' = Append(runs,
                       IF needsDetection(t.inputs.source)
                       THEN [run EXCEPT !.pc = "done", !.detectCalls = 1]
                       ELSE [run EXCEPT !.pc = "done", !.translateSource = t.inputs.source])
             ELSE /\ isTranslating' = TRUE
                  /\ error' = null
                  /\ runs' = Append(runs,
                       IF needsDetection(t.inputs.source)
                       THEN [run EXCEPT !.pc = "detectLanguage", !.detectCalls = 1,
                                        !.detectRequests = 1]
                       ELSE [run EXCEPT !.pc = "translate", !.translateSource = t.inputs.source,
                                        !.translateRequests = 1])
                  /\ UNCHANGED <<translatedText, shownBy>>
  /\ UNCHANGED <<sourceText, sourceLanguage, targetLanguage, translationHistory, unchanged, edits>>
  /\ UNCHANGED <<catalog, swaps>>
  /\ appFrame

\* Lines 446 and 475-490: the model has answered the detection of a run, k.
DetectionAnswers ==
  /\ component = "app"
  /\ \E k \in 1..Len(runs), answer \in GeminiDetections :
       /\ runs[k].pc = "detectLanguage"
       /\ LET detectedCode == slice(toLowerCase(trim(answer)), 2)
              detectedLang == appFind(detectedCode)
          IN IF detectedLang # "undefined" /\ detectedCode # und
             THEN /\ runs' = [runs EXCEPT ![k].pc = "translate", ![k].actual = detectedLang,
                                          ![k].answered = TRUE, ![k].answer = answer,
                                          ![k].translateSource = detectedLang,
                                          ![k].translateRequests = @ + 1]
                  /\ UNCHANGED <<error, isTranslating>>
             ELSE /\ error' = detectionError
                  /\ isTranslating' = FALSE
                  /\ runs' = [runs EXCEPT ![k].pc = "done",
                                          ![k].answered = TRUE, ![k].answer = answer]
  /\ UNCHANGED <<sourceText, sourceLanguage, targetLanguage, translatedText,
                 translationHistory, timers, unchanged, shownBy, edits>>
  /\ UNCHANGED <<catalog, swaps>>
  /\ appFrame

\* Lines 458 and 492-500, 506-508: the model has answered the translation of a run, k.
TranslationAnswers ==
  /\ component = "app"
  /\ \E k \in 1..Len(runs), answer \in GeminiTranslations :
       /\ runs[k].pc = "translate"
       /\ translatedText' = answer
       /\ translationHistory' =
            << [originalText |-> runs[k].inputs.text,
                translatedText |-> answer,
                sourceLanguage |-> runs[k].actual,
                targetLanguage |-> runs[k].inputs.target] >> \o translationHistory
       /\ shownBy' = k
       /\ runs' = [runs EXCEPT ![k].pc = "done"]
  /\ isTranslating' = FALSE
  /\ UNCHANGED <<sourceText, sourceLanguage, targetLanguage, error, timers, unchanged, edits>>
  /\ UNCHANGED <<catalog, swaps>>
  /\ appFrame

\* Lines 421-437 and 502-508: the request of a run, k, fails: fetch rejects,
\* response.json() rejects, or the body holds no candidate.
GeminiFails ==
  /\ component = "app"
  /\ \E k \in 1..Len(runs) :
       /\ runs[k].pc \in {"detectLanguage", "translate"}
       /\ shownBy' = k
       /\ runs' = [runs EXCEPT ![k].pc = "done"]
  /\ error' = translationError
  /\ translatedText' = << >>
  /\ isTranslating' = FALSE
  /\ UNCHANGED <<sourceText, sourceLanguage, targetLanguage, translationHistory,
                 timers, unchanged, edits>>
  /\ UNCHANGED <<catalog, swaps>>
  /\ appFrame

NextApp ==
  \/ TextChange
  \/ SourceChange
  \/ TargetChange
  \/ handleSwapLanguages
  \/ Tick
  \/ TimerFires
  \/ DetectionAnswers
  \/ TranslationAnswers
  \/ GeminiFails

SpecApp == InitApp /\ [][NextApp]_vars

\* The two callers of a detection and a translation: the hook or the App.
InitClient == InitHook \/ InitApp

NextClient == NextHook \/ NextApp

SpecClient == InitClient /\ [][NextClient]_vars

----------------------------------------------------------------------------
(* The scripts as Unicode allocates them: the terms the properties use *)

DevanagariLettersAndDigits ==
  (2308..2361)               \* U+0904 - U+0939 letters
    \cup {2365, 2384}        \* avagraha, om
    \cup (2392..2401)        \* U+0958 - U+0961 letters
    \cup (2406..2415)        \* U+0966 - U+096F digits
    \cup (2418..2431)        \* U+0972 - U+097F letters

ArabicLettersAndDigits ==
  (1568..1610)               \* U+0620 - U+064A letters
    \cup (1632..1641)        \* U+0660 - U+0669 digits
    \cup (1646..1647)
    \cup (1649..1747)        \* U+0671 - U+06D3 letters

CyrillicLetters ==
  (1024..1153)               \* U+0400 - U+0481
    \cup (1162..1327)        \* U+048A - U+052F

Kana ==
  (12353..12438)             \* hiragana U+3041 - U+3096
    \cup (12449..12538)      \* katakana U+30A1 - U+30FA

Ideographs == 19968..40959   \* U+4E00 - U+9FFF
HangulSyllables == 44032..55203   \* U+AC00 - U+D7A3

\* The language of the first script, in the order of section 4.2, of which
\* the text holds a character; "none" for a text of no such script.
firstScript(t) ==
  IF testClass(t, DevanagariLettersAndDigits) THEN "hi"
  ELSE IF testClass(t, ArabicLettersAndDigits) THEN "ar"
  ELSE IF testClass(t, CyrillicLetters) THEN "ru"
  ELSE IF testClass(t, Kana) \/ testClass(t, Ideographs) THEN "ja"
  ELSE IF testClass(t, HangulSyllables) THEN "ko"
  ELSE IF testClass(t, Ideographs) THEN "zh"
  ELSE "none"

called == pc # "idle"

----------------------------------------------------------------------------
(* Properties *)

\* C1. Tier precedence: on every text the transliteration matcher accepts the
\* heuristic answers Hindi, whatever else the text holds; the script tier is
\* evaluated only when the matcher is false, and the Latin tier only when the
\* script tier also found nothing.
TierPrecedence ==
  called =>
    LET hindi == isTransliteratedHindi(text) IN
      /\ hindi => heuristicResult = "hi"
      /\ "script" \in tiers => ~hindi
      /\ "latin" \in tiers => ~hindi /\ scriptTier(text) = "none"

\* A transliteration hit in a text that also holds the script of another
\* language, answered Hindi without the script tier.
TierPrecedenceWitness ==
  /\ pc = "done"
  /\ isTransliteratedHindi(text)
  /\ scriptTier(text) \notin {"none", "hi"}
  /\ result = "hi"
  /\ tiers = {"transliteration"}

\* C2. Script priority: a text without transliteration hit that holds a
\* character of a native script gets the language of the first script, in the
\* order Devanagari, Arabic, Cyrillic, kana or ideograph, Hangul, ideograph,
\* of which it holds a character.
ScriptPriority ==
  called /\ ~isTransliteratedHindi(text) /\ firstScript(text) # "none"
    => heuristicResult = firstScript(text)

\* C3. A text with ideographs, without kana and Hangul and without evidence of
\* an earlier tier or script, is Chinese.
IdeographsAreChinese ==
  /\ called
  /\ testClass(text, Ideographs)
  /\ ~testClass(text, Kana)
  /\ ~testClass(text, HangulSyllables)
  /\ ~isTransliteratedHindi(text)
  /\ ~testClass(text, DevanagariLettersAndDigits)
  /\ ~testClass(text, ArabicLettersAndDigits)
  /\ ~testClass(text, CyrillicLetters)
  => heuristicResult = "zh"

\* C4. Kana is enough for Japanese: a text with a hiragana or katakana
\* character, without ideograph, transliteration hit, Devanagari, Arabic and
\* Cyrillic character, is Japanese.
KanaIsJapanese ==
  /\ called
  /\ testClass(text, Kana)
  /\ ~testClass(text, Ideographs)
  /\ ~isTransliteratedHindi(text)
  /\ ~testClass(text, DevanagariLettersAndDigits)
  /\ ~testClass(text, ArabicLettersAndDigits)
  /\ ~testClass(text, CyrillicLetters)
  => heuristicResult = "ja"

\* The Latin-script languages in the order of their tests, and the test of each.
LatinOrder == <<"es", "fr", "de", "it", "pt">>

latinMatches(t, code) ==
  LET lowerText == toLowerCase(t) IN
    CASE code = "es" -> testClass(lowerText, spanishChars) \/ testWords(lowerText, spanishWords)
      [] code = "fr" -> testClass(lowerText, frenchChars) \/ testWords(lowerText, frenchWords)
      [] code = "de" -> testClass(lowerText, germanChars) \/ testWords(lowerText, germanWords)
      [] code = "it" -> testClass(lowerText, italianChars) \/ testWords(lowerText, italianWords)
      [] code = "pt" -> testClass(lowerText, portugueseChars) \/ testWords(lowerText, portugueseWords)

bonjourMerciBeaucoup ==
  <<98,111,110,106,111,117,114,44,32,109,101,114,99,105,32,98,101,97,117,99,111,117,112>>

\* C5. Latin-script tie-break: a text without transliteration hit and without
\* native-script character gets the first language, in the order Spanish,
\* French, German, Italian, Portuguese, whose diacritic class or whose
\* function words match the lowercased text; "bonjour, merci beaucoup" is French.
LatinTieBreak ==
  called /\ firstScript(text) = "none" /\ ~isTransliteratedHindi(text)
    => LET matching == {k \in 1..Len(LatinOrder) : latinMatches(text, LatinOrder[k])}
       IN /\ \A k \in matching :
               (\A j \in matching : k <= j) => heuristicResult = LatinOrder[k]
          /\ text = bonjourMerciBeaucoup => heuristicResult = "fr"

\* A text that Italian and Portuguese both match, by a function word alone,
\* answered with the earlier of the two.
LatinTieBreakWitness ==
  /\ pc = "done"
  /\ ~isTransliteratedHindi(text)
  /\ firstScript(text) = "none"
  /\ latinMatches(text, "it")
  /\ latinMatches(text, "pt")
  /\ ~testClass(toLowerCase(text), italianChars)
  /\ ~latinMatches(text, "es") /\ ~latinMatches(text, "fr") /\ ~latinMatches(text, "de")
  /\ result = "it"

\* C6. Default fallback: the heuristic answers English exactly when the
\* transliteration matcher is false, the text holds no character of a tested
\* script and none of the five Latin tests succeeds.
EnglishIffNoEvidence ==
  called =>
    (heuristicResult = "en" <=>
       /\ firstScript(text) = "none"
       /\ ~isTransliteratedHindi(text)
       /\ \A k \in 1..Len(LatinOrder) : ~latinMatches(text, LatinOrder[k]))

\* C7. Totality: a call on any text, the empty one included, is never stuck
\* and never throws; its promise resolves, never rejects, and the value is an
\* entry of the catalog, as is every value the heuristic looks up.
Totality ==
  /\ pc = "fetch" => ENABLED ResponseOk
  /\ pc = "json" => ENABLED JsonWithoutData
  /\ settled # "rejected"
  /\ called => \E i \in 1..Len(languages) : languages[i] = heuristicResult
  /\ pc = "done" => /\ settled = "resolved"
                    /\ \E i \in 1..Len(languages) : languages[i] = result

\* A call on the empty text that went to the remote service, ended.
TotalityWitness ==
  /\ pc = "done"
  /\ text = << >>
  /\ fetches = 1
  /\ settled = "resolved"
  /\ result = "en"

\* How a remote request can end without naming a language of the catalog.
inconclusive ==
  \/ response \in {"rejected", "not ok", "ok, no json", "ok, null", "ok, no data"}
  \/ /\ response = "ok, data"
     /\ ~\E i \in 2..Len(languages) : languages[i] = remoteAnswer

\* C8 as stated. A remote request is issued exactly when the heuristic result
\* is English and isLikelyEnglish fails on the text.
RemoteIffEnglishUnlikely ==
  called => (fetches > 0 <=> heuristicResult = "en" /\ ~isLikelyEnglish(text))

\* C8, amended. A remote request is issued exactly when the heuristic result
\* is English, isLikelyEnglish fails on the text and the text can be encoded
\* into the request URL (it holds no lone surrogate), and then once; a call
\* that issues no request resolves to the heuristic result.
RemoteIffEnglishUnlikelyEncodable ==
  called =>
    /\ fetches > 0 <=>
         /\ heuristicResult = "en"
         /\ ~isLikelyEnglish(text)
         /\ ~encodeURIComponentThrows(text)
    /\ fetches <= 1
    /\ fetches = 0 => pc = "done" /\ settled = "resolved" /\ result = heuristicResult

\* A text the heuristic leaves at English and isLikelyEnglish refuses, that
\* cannot be encoded: the call ended with no request.
RemoteWitness ==
  /\ pc = "done"
  /\ heuristicResult = "en"
  /\ ~isLikelyEnglish(text)
  /\ encodeURIComponentThrows(text)
  /\ fetches = 0
  /\ result = "en"

\* C9. When the remote service was consulted and its answer is inconclusive,
\* the detection is reported to the caller as failed, not as a language.
InconclusiveIsReportedFailed ==
  pc = "done" /\ fetches > 0 /\ inconclusive
    => \/ settled = "rejected"
       \/ ~\E i \in 2..Len(languages) : languages[i] = result

\* C10. A remote request that rejects or answers with a status that is not ok
\* is no error of the call: its promise resolves to the heuristic result,
\* English.
TransportFailureFallsBack ==
  pc = "done" /\ response \in {"rejected", "not ok"}
    => settled = "resolved" /\ result = "en" /\ result = heuristicResult

\* A call ended after its request rejected.
TransportFailureWitness ==
  /\ pc = "done"
  /\ fetches = 1
  /\ response = "rejected"
  /\ settled = "resolved"
  /\ result = "en"

\* The call has evaluated the heuristic and no response has arrived yet: the
\* one state of each call in which the heuristic has just acted.
evaluated == called /\ response = "none"

\* The lowercased text holds a word of the list at some position.
holdsWord(t) ==
  LET lowerText == toLowerCase(t)
  IN \E word \in hindiWords : \E i \in 1..Len(lowerText) : startsAt(lowerText, i, word)

namasteAapKaiseHo ==
  <<110,97,109,97,115,116,101,44,32,97,97,112,32,107,97,105,115,101,32,104,111>>

\* C17. The vocabulary check is a substring test: a text whose lowercased
\* form holds a word of the list anywhere, also inside a longer word, is
\* accepted by the transliteration matcher and detected as Hindi, as is
\* "namaste, aap kaise ho".
VocabularyIsSubstringTest ==
  /\ evaluated /\ holdsWord(text)
       => /\ isTransliteratedHindi(text)
          /\ heuristicResult = "hi"
          /\ pc = "done" /\ settled = "resolved" /\ result = "hi"
  /\ called /\ text = namasteAapKaiseHo => result = "hi"

\* A word of the list inside a longer word, with no word boundary around it
\* and no other hit of the matcher, detected as Hindi.
VocabularyWitness ==
  /\ pc = "done"
  /\ LET lowerText == toLowerCase(text) IN
       /\ vocabularyHit(lowerText)
       /\ ~testWords(lowerText, hindiWords)
       /\ ~patternHit(lowerText)
       /\ soundCount(lowerText) < 2
  /\ result = "hi"

\* The sounds of devanagariSounds that occur in the lowercased text.
soundsIn(t) ==
  LET lowerText == toLowerCase(t)
  IN {sound \in devanagariSounds : includes(lowerText, sound)}

\* C18. Phonetic threshold: a text without vocabulary hit and without pattern
\* hit is accepted by the transliteration matcher exactly when at least two
\* distinct sounds occur in its lowercased form, each counted once; the
\* heuristic then stops at the transliteration tier with Hindi, and goes on
\* to the script tier otherwise.
SoundThreshold ==
  evaluated =>
    LET lowerText == toLowerCase(text)
        twoSounds == Cardinality(soundsIn(text)) >= 2
    IN ~vocabularyHit(lowerText) /\ ~patternHit(lowerText)
         => /\ isTransliteratedHindi(text) <=> twoSounds
            /\ tiers = {"transliteration"} <=> twoSounds
            /\ twoSounds => heuristicResult = "hi"

\* One sound twice in a text without other hit: not accepted, the script
\* tier was evaluated.
SoundThresholdWitness ==
  /\ evaluated
  /\ ~vocabularyHit(toLowerCase(text))
  /\ ~patternHit(toLowerCase(text))
  /\ Cardinality(soundsIn(text)) = 1
  /\ soundCountOccurrences(toLowerCase(text)) = 2
  /\ "script" \in tiers
  /\ heuristicResult = "en"

\* The Devanagari block of Unicode, U+0900 - U+097F.
DevanagariBlock == 2304..2431

\* C19. A non-empty text of Devanagari code points only, vowel signs and
\* other marks included, is detected as Hindi.
PureDevanagariIsHindi ==
  called /\ Len(text) > 0 /\ (\A i \in 1..Len(text) : text[i] \in DevanagariBlock)
    => /\ heuristicResult = "hi"
       /\ pc = "done" => result = "hi"

\* The text is empty or holds white space only.
blank(t) == \A i \in 1..Len(t) : isSpace(t[i])

\* C20. On the empty text and on a text of white space only the
\* transliteration matcher is false at each of its stages, and the detection
\* is English.
BlankIsEnglish ==
  called /\ blank(text)
    => /\ ~isTransliteratedHindi(text)
       /\ ~vocabularyHit(toLowerCase(text))
       /\ ~patternHit(toLowerCase(text))
       /\ soundCount(toLowerCase(text)) = 0
       /\ tiers = {"transliteration", "script", "latin"}
       /\ heuristicResult = "en"
       /\ pc = "done" => settled = "resolved" /\ result = "en"

\* A call on a text of two kinds of white space ended with English.
BlankWitness ==
  /\ pc = "done"
  /\ Len(text) > 1
  /\ text[1] # text[2]
  /\ blank(text)
  /\ settled = "resolved"
  /\ result = "en"

\* No tier finds evidence in the text.
noEvidence(t) ==
  /\ ~isTransliteratedHindi(t)
  /\ scriptTier(t) = "none"
  /\ latinTier(t) = "none"

\* The call told its caller that the language could not be detected: it did
\* not resolve to a language of the catalog.
ambiguousSignalled ==
  \/ settled = "rejected"
  \/ ~\E i \in 2..Len(languages) : languages[i] = result

\* C12. Ambiguous input is signalled: on a text in which no tier finds
\* evidence (the empty text, white space, "xyz123") the heuristic result is
\* English and the call ends by signalling its caller that the language could
\* not be detected, not by handing English over as a detection.
AmbiguousIsSignalled ==
  pc = "done" /\ (blank(text) \/ noEvidence(text))
    => heuristicResult = "en" /\ ambiguousSignalled

\* The answer is a code of the catalog of the App, auto left aside.
isCatalogCode(answer) ==
  \E i \in 2..Len(appLanguages) : codeUnits[appLanguages[i]] = answer

\* C11. In the App with the source language auto, a detection answered with
\* the undetermined sentinel or with anything that is no code of the catalog
\* ends the run: no translation is requested, the error of detection is set
\* and isTranslating is false when the run ends, and the run neither shows a
\* translation nor adds to the history.
InconclusiveAnswerHalts ==
  \A k \in 1..Len(runs) :
    runs[k].answered /\ (runs[k].answer = und \/ ~isCatalogCode(runs[k].answer))
      => /\ runs[k].pc = "done"
         /\ runs[k].translateRequests = 0
         /\ shownBy # k
         /\ \A i \in 1..Len(translationHistory) :
              translationHistory[i].originalText = runs[k].inputs.text
                => \E j \in 1..Len(runs) : j # k /\ runs[j].inputs.text = runs[k].inputs.text

\* C13. Stale results are discarded: a run that ends after a newer run has
\* started sets neither the translation shown nor the error and adds nothing
\* to the history.
StaleResultsDiscarded ==
  [][\A k \in 1..Len(runs) :
       k < Len(runs) /\ runs[k].pc # "done" /\ runs'[k].pc = "done"
         => UNCHANGED <<translatedText, error, translationHistory>>]_vars

\* C14. Debounce: at most one timeout is pending, it is for the values the
\* App holds and counts from their last change; a run starts only after the
\* values stayed unchanged for the whole delay, for those values, and once
\* for them; when no timeout is pending the latest run is the run for the
\* values the App holds.
Debounce ==
  /\ Cardinality(timers) <= 1
  /\ \A t \in timers : t.inputs = current /\ t.elapsed = unchanged
  /\ \A k \in 1..Len(runs) :
       /\ runs[k].quiet >= Delay
       /\ runs[k].inputs = runs[k].state
       /\ \A j \in 1..Len(runs) : j # k => runs[j].edit # runs[k].edit
  /\ component = "app" /\ timers = {}
       => Len(runs) > 0 /\ runs[Len(runs)].inputs = current

\* Two changes within the delay, and one run: for the text typed last.
DebounceWitness ==
  /\ edits = 2
  /\ Len(runs) = 1
  /\ runs[1].edit = 2
  /\ runs[1].quiet = Delay
  /\ runs[1].inputs = current
  /\ trim(sourceText) # << >>
  /\ timers = {}

\* C15. One request for a translation issues at most one request to the
\* remote detection and at most one request for the translation.
AtMostOneRequestEach ==
  /\ fetches <= 1
  /\ Len(requests) <= 1
  /\ \A k \in 1..Len(runs) : runs[k].detectRequests <= 1 /\ runs[k].translateRequests <= 1

\* C16 as stated. The detection is called exactly when the selected source
\* language is auto: by the hook that has been called, by each run of the App.
DetectionIffAuto ==
  /\ component = "hook" /\ hookPc # "idle"
       => (detections > 0 <=> sourceLanguage = "auto")
  /\ \A k \in 1..Len(runs) :
       runs[k].detectCalls > 0 <=> runs[k].inputs.source = "auto"

\* C16, amended. For a text that is not blank the detection is called exactly
\* when the selected source language is auto, and then once; for a blank text
\* it is not called.  With another source language no detection is called or
\* requested, the selected language is the source of each translation request
\* and the source language of the translation that results.
DetectionIffAutoAndText ==
  /\ component = "hook" /\ hookPc # "idle"
       => /\ detections = (IF sourceLanguage = "auto" /\ trim(text) # << >> THEN 1 ELSE 0)
          /\ sourceLanguage # "auto"
               => /\ pc = "idle" /\ fetches = 0
                  /\ translateSource \in {"unset", sourceLanguage}
                  /\ \A i \in 1..Len(requests) : requests[i].source = sourceLanguage
                  /\ returned.kind = "Translation" => returned.sourceLanguage = sourceLanguage
  /\ \A k \in 1..Len(runs) :
       LET run == runs[k] IN
         /\ run.detectCalls =
              (IF run.inputs.source = "auto" /\ trim(run.inputs.text) # << >> THEN 1 ELSE 0)
         /\ run.inputs.source # "auto"
              => /\ run.detectRequests = 0
                 /\ run.translateSource \in {"unset", run.inputs.source}
                 /\ run.actual = run.inputs.source
  /\ \A i \in 1..Len(translationHistory) :
       \E k \in 1..Len(runs) :
         /\ runs[k].pc = "done"
         /\ translationHistory[i].originalText = runs[k].inputs.text
         /\ translationHistory[i].targetLanguage = runs[k].inputs.target
         /\ translationHistory[i].sourceLanguage = runs[k].actual

\* A translation from a selected language, by the hook, with no detection.
DetectionWitness ==
  /\ component = "hook"
  /\ hookPc = "returned"
  /\ sourceLanguage = "hi"
  /\ detections = 0
  /\ Len(requests) = 1
  /\ requests[1].source = "hi"
  /\ returned.kind = "Translation"
  /\ returned.sourceLanguage = "hi"
  /\ returned.translatedText = translated

\* C27. The remote answer never influences the detected language: however
\* the remote request ends (ok with data, ok without data, a status that is
\* not ok, a network error, a body that is no JSON), detectLanguage resolves
\* to the heuristic result for its text.
RemoteAnswerIsIgnored ==
  /\ evaluated => heuristicResult = heuristicLanguageDetection(text)
  /\ pc = "done" => settled = "resolved" /\ result = heuristicResult

\* A call ended on a remote answer that names another language than the
\* result.
RemoteAnswerWitness ==
  /\ pc = "done"
  /\ response = "ok, data"
  /\ remoteAnswer = "fr"
  /\ settled = "resolved"
  /\ result = "en"

\* C28. Same-language short-circuit. When the hook's translate has returned
\* and the source language it worked with (the selected one, or the detected
\* one when the selection is auto) has the code of the target language, no
\* translation request was issued, TranslationService.translate was not
\* called, and the translation returned holds the input text as its
\* translated text (a blank text returns null before any of this).
\* TranslationService.translate called with the same code twice returns its
\* input without a request.
SameLanguageShortCircuit ==
  /\ component = "hook" /\ hookPc = "returned" /\ actualSourceLanguage = targetLanguage
       => /\ requests = << >>
          /\ tpc = "idle"
          /\ returned.kind = "Translation"
          /\ returned.translatedText = text
          /\ returned.originalText = text
          /\ error = null
  /\ component = "hook" /\ hookPc = "returned" /\ trim(text) = << >>
       => returned = noTranslation /\ requests = << >> /\ tpc = "idle"
  /\ component = "translate" /\ tpc # "idle" /\ sourceLanguage = targetLanguage
       => /\ tpc = "done"
          /\ requests = << >>
          /\ returned = [kind |-> "string", value |-> text]

\* The hook has returned the text namaste, detected as Hindi, as its own
\* translation to Hindi.
SameLanguageWitness ==
  /\ component = "hook"
  /\ hookPc = "returned"
  /\ sourceLanguage = "auto"
  /\ actualSourceLanguage = "hi"
  /\ targetLanguage = "hi"
  /\ text = <<110,97,109,97,115,116,101>>
  /\ returned.kind = "Translation"
  /\ returned.translatedText = text
  /\ requests = << >>

\* TranslationService.translate has returned its input, from Hindi to Hindi.
SameLanguageServiceWitness ==
  /\ component = "translate"
  /\ tpc = "done"
  /\ sourceLanguage = "hi"
  /\ targetLanguage = "hi"
  /\ returned = [kind |-> "string", value |-> text]
  /\ Len(text) > 1

\* A run of performTranslation has a request in flight: it awaits the answer
\* to its detection or to its translation request.
inFlight(run) == run.pc \in {"detectLanguage", "translate"}

\* C23. The isTranslating flag tracks the work in flight: it is true while a
\* run of the App has a request in flight and false when none has, also when
\* a second run starts before the first has ended; and in the hook it is true
\* exactly while its translate awaits the detection or the translation.
IsTranslatingTracksInFlight ==
  /\ component = "app" => (isTranslating <=> \E k \in 1..Len(runs) : inFlight(runs[k]))
  /\ component = "hook" => (isTranslating <=> hookPc \in {"detectLanguage", "translate"})

\* The codes of the catalog.
catalogCodes == {catalog[i] : i \in 1..Len(catalog)}

\* C22. Catalog invariant: in every reachable state of the App the catalog
\* is the array it was constructed as, with one entry for each code, the auto
\* pseudo-language and English among them; no selection, swap, detection,
\* translation or history entry adds, removes or changes an entry.
CatalogInvariant ==
  component = "app"
    => /\ catalog = appLanguages
       /\ \A i, j \in 1..Len(catalog) : catalog[i] = catalog[j] => i = j
       /\ "auto" \in catalogCodes
       /\ "en" \in catalogCodes

\* The target was selected from the selector without auto, a language was
\* detected and a translation from it is in the history.
CatalogWitness ==
  /\ component = "app"
  /\ targetLanguage = "hi"
  /\ \E k \in 1..Len(runs) : runs[k].answered /\ runs[k].pc = "done"
  /\ Len(translationHistory) > 0
  /\ catalog = appLanguages

ended == classified \cup (IF pc = "done" THEN {<<text, result>>} ELSE {})

\* C21. Determinism and statelessness: of the calls of detectLanguage on the
\* shared instance that have ended, two with the same text have returned the
\* same language, whatever texts were classified in between; each has
\* returned what the heuristic gives for its text alone, the regular
\* expressions with the g flag starting every call at lastIndex 0.
DetectionIsStateless ==
  component = "instance"
    => /\ \A a, b \in ended : a[1] = b[1] => a[2] = b[2]
       /\ \A a \in ended : a[2] = heuristicLanguageDetection(a[1])

\* The third call is on the text of the first, bolkar, with a call on ke x in
\* between; both calls on bolkar matched the pattern of kar and returned
\* Hindi.
StatelessWitness ==
  /\ component = "instance"
  /\ calls = 3
  /\ pc = "done"
  /\ text = <<98,111,108,107,97,114>>
  /\ result = "hi"
  /\ lastIndex[3] = 6
  /\ classified = { << <<98,111,108,107,97,114>>, "hi" >>, << <<107,101,32,120>>, "hi" >> }

\* The ids of the entries of a list of translations.
idsOf(translations) == {translations[i].id : i \in DOMAIN translations}

\* C24: in every state of useTranslationHistory an id is in favorites if and
\* only if translations holds an entry with that id whose isFavorite is true,
\* and favorites holds no id twice.
FavoritesConsistent ==
  component = "history" =>
    /\ \A id \in idsOf(history.favorites) \cup idsOf(history.translations) :
         id \in idsOf(history.favorites)
           <=> \E i \in DOMAIN history.translations :
                 /\ history.translations[i].id = id
                 /\ history.translations[i].isFavorite
    /\ \A i, j \in DOMAIN history.favorites :
         history.favorites[i].id = history.favorites[j].id => i = j

\* C25: translations never holds more than Kept + 1 = 100 entries, and a
\* call of addTranslation leaves the new entry first, followed by the
\* Kept = 99 first entries of the list before, in their order.
HistoryCap ==
  /\ [](component = "history" => Len(history.translations) <= Kept + 1)
  /\ [][lastOp'.name = "add" /\ ops' # ops =>
          /\ history'.translations[1] = Translation(lastOp'.id)
          /\ Tail(history'.translations)
               = SubSeq(history.translations, 1,
                        IF Len(history.translations) < Kept
                        THEN Len(history.translations) ELSE Kept)]_vars

\* An addTranslation on a full history: the new entry is first, the oldest
\* entry (id 1) is gone, the second oldest is last.
HistoryCapWitness ==
  /\ lastOp.name = "add"
  /\ Len(history.translations) = Kept + 1
  /\ history.translations[1].id = Kept + 2
  /\ history.translations[Kept + 1].id = 2

\* C26: with setItem succeeding, after addTranslation, deleteTranslation,
\* clearHistory and toggleFavorite of a known id the value stored is the
\* JSON text of the history in memory, and parsing it as the load does gives
\* that history back; toggleFavorite of an unknown id changes neither; a
\* stored value the load cannot parse leaves the history empty, and nothing
\* is thrown.
PersistedMirrorsMemory ==
  /\ [](/\ component = "history"
        /\ ~quota
        /\ \/ lastOp.name \in {"add", "delete", "clear"}
           \/ lastOp.name = "toggle" /\ lastOp.known
        => /\ storage = stringify(history)
           /\ history = [translations |-> reviveAll(storage.value.translations),
                         favorites |-> reviveAll(storage.value.favorites)])
  /\ [](lastOp.name = "load" /\ storage.kind \in {"text", "json"}
        => history = emptyHistory /\ ~uncaught)
  /\ [][lastOp'.name = "toggle" /\ ~lastOp'.known /\ ops' # ops
        => UNCHANGED <<history, storage>>]_vars

\* A favorite has been made of a translation loaded, and stored: in the
\* stored text the timestamps are strings, in memory Dates.
PersistedWitness ==
  /\ ~quota
  /\ lastOp.name = "toggle"
  /\ lastOp.known
  /\ Len(history.favorites) = 1
  /\ history.favorites[1].timestamp.type = "Date"
  /\ storage.kind = "history"
  /\ Len(storage.value.favorites) = 1
  /\ storage.value.favorites[1].timestamp.type = "string"

\* At most one silence timeout is pending.
OneSilenceTimer == component = "speech" => Cardinality(silenceTimers) <= 1

\* Every result leaves exactly the timeout it has set, with Silence ms to go.
ResultRearms ==
  [][results' # results =>
       silenceTimers' = {[id |-> silenceTimeoutRef', left |-> Silence]}]_vars

\* The callback of the timeout leaves the recognition stopped, and no
\* timeout stays pending beyond its time.
SilenceStops ==
  /\ [](\A t \in silenceTimers : t.left >= 0)
  /\ [][lastEvent' = "silence" => recognition' \notin {"starting", "running"}]_vars

\* After the end event isListening is false and no timeout is pending.
EndedIsQuiet ==
  lastEvent = "end" => ~voiceState.isListening /\ silenceTimers = {}

\* After the error event isListening is false and no timeout is pending.
FailedIsQuiet ==
  lastEvent = "error" => ~voiceState.isListening /\ silenceTimers = {}

\* C30: at most one silence timeout is pending at any time, every result
\* cancels the timeout before and sets a new one of 3 seconds, the
\* recognition is stopped once the 3 seconds have passed with no further
\* result, and after the recognition has ended or has failed with an error
\* isListening is false and no silence timeout is pending.
SilenceAutoStop ==
  /\ []OneSilenceTimer
  /\ ResultRearms
  /\ SilenceStops
  /\ []EndedIsQuiet
  /\ []FailedIsQuiet

============================================================================
